---- MODULE Spec2Model ----
(***************************************************************************)
(* A model of kedro.io.data_catalog: the DataCatalog registry, its dataset  *)
(* factory patterns, the credential resolver and the _FrozenDatasets view.  *)
(*                                                                         *)
(* Python strings that the code inspects character by character (dataset   *)
(* names, patterns, config string values) are sequences of one-character    *)
(* strings.  Mapping keys of a config are TLA+ strings.                     *)
(***************************************************************************)
EXTENDS Integers, Sequences, FiniteSets, TLC

(***************************************************************************)
(* Bounds of the model.                                                     *)
(***************************************************************************)
\* longest dataset name drawn in the pattern-table specification
MaxNameLen == 3
\* largest pattern table drawn in the pattern-table specification
MaxPatterns == 3
\* number of capability instances that can be created in one behaviour
MaxInst == 3

(***************************************************************************)
(* Characters and strings.                                                  *)
(***************************************************************************)
\* code points of the characters used, for Python's string comparison
Ord(c) ==
    CASE c = "-" -> 45
      [] c = "." -> 46
      [] c = "A" -> 65
      [] c = "_" -> 95
      [] c = "a" -> 97
      [] c = "b" -> 98
      [] c = "c" -> 99
      [] c = "d" -> 100
      [] c = "k" -> 107
      [] c = "n" -> 110
      [] c = "q" -> 113
      [] c = "z" -> 122
      [] c = "{" -> 123
      [] c = "}" -> 125

\* \w of Python's re module
IsWordChar(c) == c \in {"A", "_", "a", "b", "c", "d", "k", "n", "q", "z"}

\* case folding of re.IGNORECASE
Lower(c) == IF c = "A" THEN "a" ELSE c

\* Python's str < str
RECURSIVE StrLess(_, _)
StrLess(s, t) ==
    IF t = <<>> THEN FALSE
    ELSE IF s = <<>> THEN TRUE
    ELSE IF Ord(Head(s)) # Ord(Head(t)) THEN Ord(Head(s)) < Ord(Head(t))
    ELSE StrLess(Tail(s), Tail(t))

\* Python's  c in s  for a one-character c
Contains(s, c) == \E i \in 1..Len(s) : s[i] = c

\* Python's s.count(c)
Count(s, c) == Cardinality({i \in 1..Len(s) : s[i] = c})

\* index of the first occurrence of c in s (s contains c)
FirstIndex(s, c) == CHOOSE i \in 1..Len(s) : s[i] = c /\ \A j \in 1..(i-1) : s[j] # c

\* s[i:] of Python with a 1-based i
Drop(s, i) == SubSeq(s, i, Len(s))

(***************************************************************************)
(* _specificity and the order of the pattern table.                         *)
(***************************************************************************)
\* re.sub(r"\{.*?\}", "", pattern): every "{" that has a later "}" is removed
\* together with everything up to the nearest "}"
RECURSIVE StripPlaceholders(_)
StripPlaceholders(s) ==
    IF s = <<>> THEN <<>>
    ELSE IF Head(s) = "{" /\ Contains(Tail(s), "}")
         THEN StripPlaceholders(Drop(Tail(s), FirstIndex(Tail(s), "}") + 1))
         ELSE <<Head(s)>> \o StripPlaceholders(Tail(s))

_specificity(pattern) == Len(StripPlaceholders(pattern))

\* the sort key (-_specificity(pattern), -pattern.count("{"), pattern) of __init__,
\* compared as Python compares tuples
PatternKeyLess_IgnoresPlaceholderCount(p, q) ==
    \/ _specificity(p) > _specificity(q)
    \/ _specificity(p) = _specificity(q) /\ StrLess(p, q)

PatternKeyLess(p, q) ==
    \/ -(_specificity(p)) < -(_specificity(q))
    \/ /\ -(_specificity(p)) = -(_specificity(q))
       /\ \/ -Count(p, "{") < -Count(q, "{")
          \/ -Count(p, "{") = -Count(q, "{") /\ StrLess(p, q)

\* sorted(keys, key=...): the keys of a dict are distinct, so the order is
\* fixed by the key alone
RECURSIVE SortPatterns(_)
SortPatterns(S) ==
    IF S = {} THEN <<>>
    ELSE LET first == CHOOSE p \in S : \A q \in S \ {p} : PatternKeyLess(p, q)
         IN  <<first>> \o SortPatterns(S \ {first})

(***************************************************************************)
(* parse.parse(pattern, name), the template matcher of the parse library,   *)
(* as far as the code uses it: fields without a format specification.       *)
(***************************************************************************)
\* the text between "{" and "}" of a field: \w*(\.\w+)*
IsFieldName(t) ==
    /\ \A i \in 1..Len(t) : IsWordChar(t[i]) \/ t[i] = "."
    /\ \A i \in 1..Len(t) : t[i] = "." => (i < Len(t) /\ IsWordChar(t[i+1]))

\* the split of a format into "{{", "}}", fields and literal text
RECURSIVE Tokenize(_)
Tokenize(s) ==
    IF s = <<>> THEN <<>>
    ELSE IF Len(s) >= 2 /\ s[1] = "{" /\ s[2] = "{"
         THEN <<[kind |-> "lit", v |-> <<"{">>]>> \o Tokenize(Drop(s, 3))
    ELSE IF Len(s) >= 2 /\ s[1] = "}" /\ s[2] = "}"
         THEN <<[kind |-> "lit", v |-> <<"}">>]>> \o Tokenize(Drop(s, 3))
    ELSE IF /\ s[1] = "{"
            /\ Contains(s, "}")
            /\ IsFieldName(SubSeq(s, 2, FirstIndex(s, "}") - 1))
         THEN <<[kind |-> "field", v |-> SubSeq(s, 2, FirstIndex(s, "}") - 1)]>>
              \o Tokenize(Drop(s, FirstIndex(s, "}") + 1))
    ELSE <<[kind |-> "lit", v |-> <<s[1]>>]>> \o Tokenize(Tail(s))

NoNamed == [x \in {} |-> <<>>]
NoMatch == [ok |-> FALSE, named |-> NoNamed]

\* equality of two texts under re.IGNORECASE
SameFolded(s, t) ==
    Len(s) = Len(t) /\ \A i \in 1..Len(s) : Lower(s[i]) = Lower(t[i])

\* The regular expression \A...\Z built from the tokens, matched by
\* backtracking: literal text is matched ignoring case, a field is (.+?)
\* (the shortest text that lets the rest match), a repeated field name is a
\* back-reference.  The result carries Result.named.
RECURSIVE MatchTokens(_, _, _), MatchField(_, _, _, _)
MatchTokens(toks, s, named) ==
    IF toks = <<>> THEN
        IF s = <<>> THEN [ok |-> TRUE, named |-> named] ELSE NoMatch
    ELSE LET t == Head(toks) IN
         IF t.kind = "lit" THEN
             IF s # <<>> /\ Lower(Head(s)) = Lower(t.v[1])
             THEN MatchTokens(Tail(toks), Tail(s), named)
             ELSE NoMatch
         ELSE IF t.v # <<>> /\ t.v \in DOMAIN named THEN
             LET k == Len(named[t.v]) IN
             IF Len(s) >= k /\ SameFolded(SubSeq(s, 1, k), named[t.v])
             THEN MatchTokens(Tail(toks), Drop(s, k + 1), named)
             ELSE NoMatch
         ELSE MatchField(toks, s, named, 1)
MatchField(toks, s, named, k) ==
    IF k > Len(s) THEN NoMatch
    ELSE LET name == Head(toks).v
             bound == IF name = <<>> THEN named
                      ELSE [x \in DOMAIN named \cup {name} |->
                               IF x = name THEN SubSeq(s, 1, k) ELSE named[x]]
             r == MatchTokens(Tail(toks), Drop(s, k + 1), bound)
         IN  IF r.ok THEN r ELSE MatchField(toks, s, named, k + 1)

parse(pattern, name) == MatchTokens(Tokenize(pattern), name, NoNamed)

\* DataCatalog.match_name_against_patterns over a sorted pattern list:
\* the first pattern that parses the name, or <<>> for None
RECURSIVE match_LastMatch(_, _)
match_LastMatch(sortedPatterns, dataset_name) ==
    IF sortedPatterns = <<>> THEN <<>>
    ELSE LET rest == match_LastMatch(Tail(sortedPatterns), dataset_name)
         IN  IF rest # <<>> THEN rest
             ELSE IF parse(Head(sortedPatterns), dataset_name).ok
                  THEN Head(sortedPatterns) ELSE <<>>

RECURSIVE match_name_against_patterns(_, _)
match_name_against_patterns(sortedPatterns, dataset_name) ==
    IF sortedPatterns = <<>> THEN <<>>
    ELSE IF parse(Head(sortedPatterns), dataset_name).ok THEN Head(sortedPatterns)
    ELSE match_name_against_patterns(Tail(sortedPatterns), dataset_name)

(***************************************************************************)
(* Dataset configs.  A value is a string, a nested mapping or an entry of   *)
(* the credentials table; all three are records of one shape.               *)
(***************************************************************************)
NoMap == [k \in {} |-> 0]
StrVal(s) == [tag |-> "str", s |-> s, m |-> NoMap]
MapVal(m) == [tag |-> "map", s |-> <<>>, m |-> m]
SecretVal(s) == [tag |-> "secret", s |-> s, m |-> NoMap]
\* a list with one item, the mapping m
ListVal(m) == [tag |-> "list", s |-> <<>>, m |-> m]

CREDENTIALS_KEY == "credentials"

\* the order in which the configs of the model list their keys (a Python dict
\* iterates in insertion order)
KeyOrder == <<"type", "layer", "filepath", CREDENTIALS_KEY, "load_args", "sep">>

NoError == [kind |-> "none", key |-> "", ref |-> <<>>]
Error(kind) == [kind |-> kind, key |-> "", ref |-> <<>>]

\* _get_credentials and _resolve_credentials._map_value, applied to the keys
\* of one mapping in order; the first missing reference raises KeyError
RECURSIVE ResolveKeys_TopLevelOnly(_, _, _)
ResolveKeys_TopLevelOnly(keys, m, credentials) ==
    IF keys = <<>> THEN [err |-> NoError, m |-> m]
    ELSE LET k == Head(keys) IN
         IF k \notin DOMAIN m THEN ResolveKeys_TopLevelOnly(Tail(keys), m, credentials)
         ELSE LET v == m[k]
                  one ==
                    IF k = CREDENTIALS_KEY /\ v.tag = "str" THEN
                        IF v.s \in DOMAIN credentials
                        THEN [err |-> NoError, v |-> credentials[v.s]]
                        ELSE [err |-> [kind |-> "KeyError", key |-> k, ref |-> v.s],
                              v |-> v]
                    ELSE [err |-> NoError, v |-> v]
              IN  IF one.err.kind # "none" THEN [err |-> one.err, m |-> m]
                  ELSE LET rest == ResolveKeys_TopLevelOnly(Tail(keys), m, credentials)
                       IN  [err |-> rest.err,
                            m |-> [x \in DOMAIN m |-> IF x = k THEN one.v ELSE rest.m[x]]]

RECURSIVE ResolveKeys(_, _, _)
ResolveKeys(keys, m, credentials) ==
    IF keys = <<>> THEN [err |-> NoError, m |-> m]
    ELSE LET k == Head(keys) IN
         IF k \notin DOMAIN m THEN ResolveKeys(Tail(keys), m, credentials)
         ELSE LET v == m[k]
                  one ==
                    IF k = CREDENTIALS_KEY /\ v.tag = "str" THEN
                        IF v.s \in DOMAIN credentials
                        THEN [err |-> NoError, v |-> credentials[v.s]]
                        ELSE [err |-> [kind |-> "KeyError", key |-> k, ref |-> v.s],
                              v |-> v]
                    ELSE IF v.tag = "map" THEN
                        LET sub == ResolveKeys(KeyOrder, v.m, credentials)
                        IN  [err |-> sub.err, v |-> MapVal(sub.m)]
                    ELSE [err |-> NoError, v |-> v]
              IN  IF one.err.kind # "none" THEN [err |-> one.err, m |-> m]
                  ELSE LET rest == ResolveKeys(Tail(keys), m, credentials)
                       IN  [err |-> rest.err,
                            m |-> [x \in DOMAIN m |-> IF x = k THEN one.v ELSE rest.m[x]]]

_resolve_credentials(config, credentials) == ResolveKeys(KeyOrder, config, credentials)

(***************************************************************************)
(* str.format_map(result.named) on a string value.                          *)
(***************************************************************************)
FormatOk(out) == [kind |-> "none", out |-> out]
FormatErr(kind) == [kind |-> kind, out |-> <<>>]

RECURSIVE format_map(_, _)
format_map(s, named) ==
    IF s = <<>> THEN FormatOk(<<>>)
    ELSE LET lit(c, n) == LET rest == format_map(Drop(s, n), named)
                          IN  IF rest.kind = "none" THEN FormatOk(<<c>> \o rest.out)
                              ELSE rest
         IN
         IF s[1] = "{" THEN
             IF Len(s) >= 2 /\ s[2] = "{" THEN lit("{", 3)
             ELSE IF ~Contains(s, "}") THEN FormatErr("ValueError")
             ELSE LET j == FirstIndex(s, "}")
                      field == SubSeq(s, 2, j - 1)
                      arg == IF Contains(field, ".")
                             THEN SubSeq(field, 1, FirstIndex(field, ".") - 1)
                             ELSE field
                  IN  IF Contains(field, "{") \/ arg = <<>> THEN FormatErr("ValueError")
                      ELSE IF arg \notin DOMAIN named THEN FormatErr("KeyError")
                      ELSE IF Contains(field, ".") THEN
                          IF field[Len(field)] = "." THEN FormatErr("ValueError")
                          ELSE FormatErr("AttributeError")
                      ELSE LET rest == format_map(Drop(s, j + 1), named)
                           IN  IF rest.kind = "none"
                               THEN FormatOk(named[arg] \o rest.out)
                               ELSE rest
         ELSE IF s[1] = "}" THEN
             IF Len(s) >= 2 /\ s[2] = "}" THEN lit("}", 3)
             ELSE FormatErr("ValueError")
         ELSE lit(s[1], 2)

(***************************************************************************)
(* AbstractDataSet.from_config of kedro.io.core: builds a capability from   *)
(* a config by its "type"; a config without a known type is a construction  *)
(* error.  The capability keeps the config it was built from; version       *)
(* information is attached only to a versioned type.                        *)
(***************************************************************************)
KnownTypes == {<<"n">>, <<"d">>}
VersionedTypes == {<<"d">>}
ConfirmTypes == {<<"d">>}

AbstractDataSet_from_config(name, config, load_version, save_version) ==
    IF "type" \in DOMAIN config /\ config["type"].tag = "str"
       /\ config["type"].s \in KnownTypes
    THEN [err |-> NoError,
          ds |-> [type |-> config["type"].s,
                  config |-> config,
                  versioned |-> config["type"].s \in VersionedTypes,
                  load_version |-> IF config["type"].s \in VersionedTypes
                                   THEN load_version ELSE "",
                  origin |-> "config"]]
    ELSE [err |-> Error("DatasetError"), ds |-> [type |-> <<>>]]

(***************************************************************************)
(* DataCatalog._resolve_dataset: the config of a dataset built from a       *)
(* pattern.  Only the items of the template itself are visited.             *)
(***************************************************************************)
RECURSIVE SubstituteKeys(_, _, _, _)
SubstituteKeys(keys, template_copy, named, matched_pattern) ==
    IF keys = <<>> THEN [err |-> NoError, m |-> template_copy]
    ELSE LET key == Head(keys) IN
         IF key \notin DOMAIN template_copy
         THEN SubstituteKeys(Tail(keys), template_copy, named, matched_pattern)
         ELSE LET value == template_copy[key] IN
              IF value.tag = "str" /\ Contains(value.s, "}") THEN
                  LET f == format_map(value.s, named) IN
                  IF f.kind = "KeyError"
                  THEN [err |-> [kind |-> "DatasetError", key |-> key,
                                 ref |-> matched_pattern],
                        m |-> template_copy]
                  ELSE IF f.kind # "none"
                  THEN [err |-> Error(f.kind), m |-> template_copy]
                  ELSE SubstituteKeys(Tail(keys),
                           [template_copy EXCEPT ![key] = StrVal(f.out)],
                           named, matched_pattern)
              ELSE SubstituteKeys(Tail(keys), template_copy, named, matched_pattern)

\* copy.deepcopy(x): an object of its own with the value of x.  fresh says
\* that writes to the result do not reach x.
deepcopy_ReturnsArgument(x) == [fresh |-> FALSE, m |-> x]

deepcopy(x) == [fresh |-> TRUE, m |-> x]

\* template is the value of self.dataset_patterns[matched_pattern] when the
\* call ends: the loop writes to template_copy, that is to the template
\* itself unless template_copy is an object of its own
_resolve_dataset(dataset_patterns, dataset_name, matched_pattern) ==
    LET result == parse(matched_pattern, dataset_name)
        template_copy == deepcopy(dataset_patterns[matched_pattern])
        sub == SubstituteKeys(KeyOrder, template_copy.m, result.named, matched_pattern)
        template == IF template_copy.fresh THEN dataset_patterns[matched_pattern] ELSE sub.m
    IN  IF sub.err.kind # "none"
        THEN [err |-> sub.err, ds |-> [type |-> <<>>], template |-> template]
        ELSE LET built == AbstractDataSet_from_config(dataset_name, sub.m, "", "")
             IN  IF built.err.kind # "none"
                 THEN [err |-> built.err, ds |-> built.ds, template |-> template]
                 ELSE [err |-> NoError, ds |-> [built.ds EXCEPT !.origin = "pattern"],
                       template |-> template]

(***************************************************************************)
(* _FrozenDatasets.                                                         *)
(***************************************************************************)
\* re.sub(r"\W+", "__", data_set_name)
RECURSIVE _sub_nonword_chars(_)
_sub_nonword_chars(s) ==
    IF s = <<>> THEN <<>>
    ELSE IF IsWordChar(Head(s)) THEN <<Head(s)>> \o _sub_nonword_chars(Tail(s))
    ELSE IF Len(s) >= 2 /\ ~IsWordChar(s[2]) THEN _sub_nonword_chars(Tail(s))
    ELSE <<"_", "_">> \o _sub_nonword_chars(Tail(s))

\* one _FrozenDatasets collection argument that is a dict: its entries are
\* written to __dict__ in order, under their normalised names
RECURSIVE FrozenUpdate_FirstWins(_, _)
FrozenUpdate_FirstWins(view, collection) ==
    IF collection = <<>> THEN view
    ELSE LET key == _sub_nonword_chars(Head(collection).name)
         IN  FrozenUpdate_FirstWins([x \in DOMAIN view \cup {key} |->
                              IF x \in DOMAIN view THEN view[x] ELSE Head(collection).id],
                          Tail(collection))

RECURSIVE FrozenUpdate(_, _)
FrozenUpdate(view, collection) ==
    IF collection = <<>> THEN view
    ELSE LET key == _sub_nonword_chars(Head(collection).name)
         IN  FrozenUpdate([x \in DOMAIN view \cup {key} |->
                              IF x = key THEN Head(collection).id ELSE view[x]],
                          Tail(collection))

NoView == [x \in {} |-> 0]

(***************************************************************************)
(* A Python dict from dataset names to capability instances: a sequence of  *)
(* entries in insertion order.  An instance is named by its identity, its   *)
(* index in insts.                                                          *)
(***************************************************************************)
Keys(d) == {d[i].name : i \in 1..Len(d)}
Has(d, name) == name \in Keys(d)
Get(d, name) == d[CHOOSE i \in 1..Len(d) : d[i].name = name].id
Put(d, name, id) ==
    IF Has(d, name)
    THEN [i \in 1..Len(d) |-> IF d[i].name = name THEN [name |-> name, id |-> id] ELSE d[i]]
    ELSE Append(d, [name |-> name, id |-> id])

(***************************************************************************)
(* The inputs of the model.                                                 *)
(***************************************************************************)
nm_ab == <<"a", ".", "b">>
nm_ba == <<"b", ".", "a">>
nm_c == <<"c">>
nm_brace == <<"a", "}">>
pt_n_b == <<"{", "n", "}", ".", "b">>
pt_n_d == <<"{", "n", "}", ".", "{", "d", "}">>

\* the dataset names the callers use
Names == {nm_ab, nm_ba, nm_c, nm_brace}

\* the credentials table given to from_config
CredentialsTable == [x \in {<<"k">>} |-> SecretVal(<<"k">>)]

cfg_c == [x \in {"type", "layer", CREDENTIALS_KEY} |->
            CASE x = "type" -> StrVal(<<"d">>)
              [] x = "layer" -> StrVal(<<"k">>)
              [] x = CREDENTIALS_KEY -> StrVal(<<"k">>)]
cfg_n_b == [x \in {"type", "filepath", CREDENTIALS_KEY, "load_args"} |->
            CASE x = "type" -> StrVal(<<"n">>)
              [] x = "filepath" -> StrVal(<<"{", "n", "}", ".", "c">>)
              [] x = CREDENTIALS_KEY -> StrVal(<<"k">>)
              [] x = "load_args" -> MapVal([y \in {"sep"} |-> StrVal(<<"{", "n", "}">>)])]
cfg_n_d == [x \in {"type", "filepath"} |->
            CASE x = "type" -> StrVal(<<"d">>)
              [] x = "filepath" -> StrVal(<<"{", "z", "}">>)]
cfg_missing == [x \in {"type", CREDENTIALS_KEY} |->
            CASE x = "type" -> StrVal(<<"n">>)
              [] x = CREDENTIALS_KEY -> StrVal(<<"q">>)]

\* catalog configs, as the ordered entries of the catalog dict
CatalogMain == << [name |-> nm_c, config |-> cfg_c],
                  [name |-> pt_n_b, config |-> cfg_n_b],
                  [name |-> pt_n_d, config |-> cfg_n_d] >>
CatalogMissingCredentials == << [name |-> pt_n_b, config |-> cfg_n_b],
                                [name |-> nm_c, config |-> cfg_missing] >>
Catalogs == {CatalogMain, CatalogMissingCredentials}

\* load_versions arguments: the names that are given a load version
LoadVersionChoices == {{}, {nm_c}, {<<"z">>}}

(***************************************************************************)
(* State.                                                                   *)
(***************************************************************************)
Regs == {"catalog", "copy"}

\* the dict objects that __init__ can allocate, one per catalog
Dicts == {"dict1", "dict2"}

VARIABLES
    alive,             \* the DataCatalog objects that exist
    insts,             \* the capability instances created so far
    ds_ref,            \* per catalog: the dict object that self._data_sets names
    data_sets,         \* per dict object: its entries
    datasets,          \* per catalog: self.datasets.__dict__
    layers,            \* per catalog: self.layers, as (layer, name) pairs
    dataset_patterns,  \* per catalog: self.dataset_patterns
    sorted_patterns,   \* per catalog: self._sorted_dataset_patterns
    cache,             \* per catalog: self._pattern_matches_cache
    credentials,       \* the credentials argument of from_config
    first_registered,  \* history: per catalog, the instance that the first
                       \* resolution of a pattern-matched name registered
    first_failure,     \* history: per catalog, the error that the first failed
                       \* materialization of a pattern-matched name raised
    last,              \* the last call: its arguments and its outcome
    pt_pc,             \* pattern-table specification: position
    pt_patterns,       \* pattern-table specification: the keys of dataset_patterns
    pt_sorted,         \* pattern-table specification: _sorted_dataset_patterns
    pt_name,           \* pattern-table specification: the name matched
    pt_match,          \* pattern-table specification: the pattern returned
    cr_pc,             \* credential-resolver specification: position
    cr_config,         \* credential-resolver specification: the config argument
    cr_result,         \* credential-resolver specification: the result or error
    th_pc,             \* per thread: its position in load/save and _get_dataset
    th_call,           \* per thread: the call it makes and how the call began
    th_local,          \* per thread: the local variables of its call
    th_out             \* per thread: what its call returned or raised

vars == <<alive, insts, ds_ref, data_sets, datasets, layers, dataset_patterns,
          sorted_patterns, cache, credentials, first_registered, first_failure, last,
          pt_pc, pt_patterns, pt_sorted, pt_name, pt_match,
          cr_pc, cr_config, cr_result,
          th_pc, th_call, th_local, th_out>>

ptVars == <<pt_pc, pt_patterns, pt_sorted, pt_name, pt_match>>
crVars == <<cr_pc, cr_config, cr_result>>
thVars == <<th_pc, th_call, th_local, th_out>>
catVars == <<alive, insts, ds_ref, data_sets, datasets, layers, dataset_patterns,
             sorted_patterns, cache, credentials, first_registered, first_failure, last>>

NoPatterns == [x \in {} |-> NoMap]

\* Python's None, for an argument that is a string otherwise: no string of
\* one-character strings equals it
None == <<"None">>
NoCache == [x \in {} |-> <<>>]
NoFirst == [x \in {} |-> 0]
NoFailure == [x \in {} |-> NoError]
NoResult == [err |-> NoError, m |-> NoMap]

\* self._data_sets of catalog r
DS(r) == data_sets[ds_ref[r]]

NoCall == [op |-> "none", reg |-> "", name |-> <<>>, err |-> NoError, ret |-> 0,
           copy |-> FALSE, res |-> "", matchCalls |-> 0, built |-> 0,
           replace |-> FALSE, version |-> "", names |-> <<>>, load_versions |-> {},
           regex_search |-> None, listed |-> <<>>]

\* the threads of a concurrent host that call the catalog
Threads == {"t1", "t2"}

NoThreadCall == [op |-> "none", name |-> <<>>, unregistered |-> FALSE, overlapped |-> FALSE]
NoLocal == [matched_dataset |-> 0, datasets |-> NoView]
NoOut == [err |-> NoError, ret |-> 0, built |-> 0]

\* no thread is inside a call
ThreadsIdle ==
    /\ th_pc = [t \in Threads |-> "idle"]
    /\ th_call = [t \in Threads |-> NoThreadCall]
    /\ th_local = [t \in Threads |-> NoLocal]
    /\ th_out = [t \in Threads |-> NoOut]

Init ==
    /\ alive = {}
    /\ insts = <<>>
    /\ ds_ref = [r \in Regs |-> "dict1"]
    /\ data_sets = [o \in Dicts |-> <<>>]
    /\ datasets = [r \in Regs |-> NoView]
    /\ layers = [r \in Regs |-> {}]
    /\ dataset_patterns = [r \in Regs |-> NoPatterns]
    /\ sorted_patterns = [r \in Regs |-> <<>>]
    /\ cache = [r \in Regs |-> NoCache]
    /\ credentials = NoMap
    /\ first_registered = [r \in Regs |-> NoFirst]
    /\ first_failure = [r \in Regs |-> NoFailure]
    /\ last = NoCall
    /\ pt_pc = "off"
    /\ pt_patterns = {}
    /\ pt_sorted = <<>>
    /\ pt_name = <<>>
    /\ pt_match = <<>>
    /\ cr_pc = "off"
    /\ cr_config = NoMap
    /\ cr_result = NoResult
    /\ ThreadsIdle

(***************************************************************************)
(* DataCatalog.from_config and DataCatalog.__init__.                        *)
(***************************************************************************)
\* from_config's test for a dataset factory pattern
IsPatternName_Never(ds_name) == FALSE

IsPatternName(ds_name) == Contains(ds_name, "}")

\* config without one key (dict.pop)
Without(m, k) == [x \in DOMAIN m \ {k} |-> m[x]]

\* the loop over catalog.items(): acc carries data_sets (names with the
\* capabilities built), dataset_patterns and layers; the first failure ends it
RECURSIVE FromConfigLoop(_, _, _, _)
FromConfigLoop(entries, creds, load_versions, acc) ==
    IF entries = <<>> THEN acc
    ELSE LET ds_name == Head(entries).name
             ds_config == Head(entries).config
         IN
         IF IsPatternName(ds_name) THEN
             FromConfigLoop(Tail(entries), creds, load_versions,
                 [acc EXCEPT !.patterns =
                     [x \in DOMAIN acc.patterns \cup {ds_name} |->
                         IF x = ds_name THEN ds_config ELSE acc.patterns[x]]])
         ELSE LET popped == Without(ds_config, "layer")
                  lay == IF "layer" \in DOMAIN ds_config
                         THEN {<<ds_config["layer"].s, ds_name>>} ELSE {}
                  resolved == _resolve_credentials(popped, creds)
                  built == AbstractDataSet_from_config(ds_name, resolved.m,
                               IF ds_name \in load_versions THEN "v" ELSE "", "s")
              IN  IF resolved.err.kind # "none" THEN [acc EXCEPT !.err = resolved.err]
                  ELSE IF built.err.kind # "none" THEN [acc EXCEPT !.err = built.err]
                  ELSE FromConfigLoop(Tail(entries), creds, load_versions,
                           [acc EXCEPT !.built = Append(@, [name |-> ds_name, ds |-> built.ds]),
                                       !.layers = @ \cup lay])

EntryNames(entries) == {entries[i].name : i \in 1..Len(entries)}

from_config_ChecksAfterLoop(catalog, creds, load_versions) ==
    LET acc == FromConfigLoop(catalog, creds, load_versions,
                   [err |-> NoError, built |-> <<>>, patterns |-> NoPatterns, layers |-> {}])
    IN  IF acc.err.kind = "none" /\ load_versions \ EntryNames(catalog) # {}
        THEN [acc EXCEPT !.err = Error("DatasetNotFoundError")]
        ELSE acc

from_config(catalog, creds, load_versions) ==
    IF load_versions \ EntryNames(catalog) # {}
    THEN [err |-> Error("DatasetNotFoundError"), built |-> <<>>,
          patterns |-> NoPatterns, layers |-> {}]
    ELSE FromConfigLoop(catalog, creds, load_versions,
             [err |-> NoError, built |-> <<>>, patterns |-> NoPatterns, layers |-> {}])

\* the dict of names to instance identities, for capabilities that take the
\* identities base+1, base+2, ...
Registered(built, base) == [i \in 1..Len(built) |-> [name |-> built[i].name, id |-> base + i]]

FromConfig(catalog, load_versions) ==
    /\ alive = {}
    /\ \E r \in {from_config(catalog, CredentialsTable, load_versions)} :
       /\ Len(insts) + Len(r.built) <= MaxInst
       /\ IF r.err.kind # "none" THEN
              /\ last' = [NoCall EXCEPT !.op = "from_config", !.err = r.err,
                                        !.built = Len(r.built),
                                        !.names = [i \in 1..Len(catalog) |-> catalog[i].name],
                                        !.load_versions = load_versions]
              /\ UNCHANGED <<alive, insts, ds_ref, data_sets, datasets, layers,
                             dataset_patterns, sorted_patterns, cache, credentials,
                             first_registered, first_failure>>
          ELSE
              /\ alive' = {"catalog"}
              /\ insts' = insts \o [i \in 1..Len(r.built) |-> r.built[i].ds]
              /\ ds_ref' = [ds_ref EXCEPT !["catalog"] = "dict1"]
              /\ data_sets' = [data_sets EXCEPT !["dict1"] = Registered(r.built, Len(insts))]
              /\ datasets' = [datasets EXCEPT !["catalog"] =
                                 FrozenUpdate(NoView, Registered(r.built, Len(insts)))]
              /\ layers' = [layers EXCEPT !["catalog"] = r.layers]
              /\ dataset_patterns' = [dataset_patterns EXCEPT !["catalog"] = r.patterns]
              /\ sorted_patterns' = [sorted_patterns EXCEPT !["catalog"] =
                                        SortPatterns(DOMAIN r.patterns)]
              /\ cache' = [cache EXCEPT !["catalog"] = NoCache]
              /\ credentials' = CredentialsTable
              /\ last' = [NoCall EXCEPT !.op = "from_config", !.reg = "catalog",
                                        !.built = Len(r.built),
                                        !.names = [i \in 1..Len(catalog) |-> catalog[i].name],
                                        !.load_versions = load_versions]
              /\ UNCHANGED <<first_registered, first_failure>>
    /\ UNCHANGED <<ptVars, crVars, thVars>>

(***************************************************************************)
(* difflib.get_close_matches(word, possibilities) with its defaults n=3,    *)
(* cutoff=0.6: the possibilities whose SequenceMatcher ratio with the word  *)
(* is at least the cutoff, the best three, best first.                      *)
(***************************************************************************)
\* a[i:i+k] == b[j:j+k], with positions counted from 1
BlockAt(a, b, i, j, k) ==
    /\ i + k - 1 <= Len(a)
    /\ j + k - 1 <= Len(b)
    /\ \A d \in 0..(k - 1) : a[i + d] = b[j + d]

\* the total size of SequenceMatcher.get_matching_blocks(): the longest
\* common block, the earliest in a and then the earliest in b among the
\* longest, and recursively the blocks to its left and to its right
RECURSIVE MatchingSize(_, _)
MatchingSize(a, b) ==
    LET sizes == {k \in 1..Len(a) :
                     \E i \in 1..Len(a), j \in 1..Len(b) : BlockAt(a, b, i, j, k)}
    IN  IF sizes = {} THEN 0
        ELSE LET k == CHOOSE m \in sizes : \A m2 \in sizes : m2 <= m
                 i == CHOOSE x \in 1..Len(a) :
                         /\ \E j \in 1..Len(b) : BlockAt(a, b, x, j, k)
                         /\ \A x2 \in 1..(x - 1) : \A j \in 1..Len(b) : ~BlockAt(a, b, x2, j, k)
                 j == CHOOSE y \in 1..Len(b) :
                         /\ BlockAt(a, b, i, y, k)
                         /\ \A y2 \in 1..(y - 1) : ~BlockAt(a, b, i, y2, k)
             IN  k + MatchingSize(SubSeq(a, 1, i - 1), SubSeq(b, 1, j - 1))
                   + MatchingSize(SubSeq(a, i + k, Len(a)), SubSeq(b, j + k, Len(b)))

\* ratio() >= 0.6, where ratio() is 2.0 * matches / (len(a) + len(b)), and 1.0
\* for two empty strings
IsClose(x, word) ==
    \/ Len(x) + Len(word) = 0
    \/ 10 * MatchingSize(x, word) >= 3 * (Len(x) + Len(word))

\* (ratio(x), x) > (ratio(y), y) as Python compares tuples
BetterMatch(x, y, word) ==
    LET mx == MatchingSize(x, word) * (Len(y) + Len(word))
        my == MatchingSize(y, word) * (Len(x) + Len(word))
    IN  mx > my \/ (mx = my /\ StrLess(y, x))

\* heapq.nlargest(n, result)
RECURSIVE NLargest(_, _, _)
NLargest(n, S, word) ==
    IF n = 0 \/ S = {} THEN <<>>
    ELSE LET best == CHOOSE x \in S : \A y \in S \ {x} : BetterMatch(x, y, word)
         IN  <<best>> \o NLargest(n - 1, S \ {best}, word)

get_close_matches(word, possibilities) ==
    NLargest(3, {x \in possibilities : IsClose(x, word)}, word)

(***************************************************************************)
(* Resolution: exists_in_catalog_config, add and _get_dataset, as functions *)
(* of the state of catalog r.  Each returns the outcome and the new values  *)
(* of the fields it writes.                                                 *)
(***************************************************************************)
exists_in_catalog_config_CachesMiss(r, dataset_name) ==
    IF Has(DS(r), dataset_name) \/ dataset_name \in DOMAIN cache[r]
    THEN [res |-> TRUE, cache |-> cache[r], matchCalls |-> 0]
    ELSE LET matched_pattern == match_name_against_patterns(sorted_patterns[r], dataset_name)
         IN  [res |-> matched_pattern # <<>>,
              cache |-> [x \in DOMAIN cache[r] \cup {dataset_name} |->
                            IF x = dataset_name THEN matched_pattern ELSE cache[r][x]],
              matchCalls |-> 1]

exists_in_catalog_config(r, dataset_name) ==
    IF Has(DS(r), dataset_name) \/ dataset_name \in DOMAIN cache[r]
    THEN [res |-> TRUE, cache |-> cache[r], matchCalls |-> 0]
    ELSE LET matched_pattern == match_name_against_patterns(sorted_patterns[r], dataset_name)
         IN  IF matched_pattern # <<>>
             THEN [res |-> TRUE,
                   cache |-> [x \in DOMAIN cache[r] \cup {dataset_name} |->
                                 IF x = dataset_name THEN matched_pattern ELSE cache[r][x]],
                   matchCalls |-> 1]
             ELSE [res |-> FALSE, cache |-> cache[r], matchCalls |-> 1]

\* add on the dict d and the view v; id is the identity of data_set
add_ViewOnly(d, v, data_set_name, id, replace) ==
    IF Has(d, data_set_name) /\ ~replace
    THEN [err |-> Error("DatasetAlreadyExistsError"), data_sets |-> d, datasets |-> v]
    ELSE [err |-> NoError,
          data_sets |-> d,
          datasets |-> FrozenUpdate(v, <<[name |-> data_set_name, id |-> id]>>)]

add_AlwaysReplaces(d, v, data_set_name, id, replace) ==
    [err |-> NoError,
     data_sets |-> Put(d, data_set_name, id),
     datasets |-> FrozenUpdate(v, <<[name |-> data_set_name, id |-> id]>>)]

add(d, v, data_set_name, id, replace) ==
    IF Has(d, data_set_name) /\ ~replace
    THEN [err |-> Error("DatasetAlreadyExistsError"), data_sets |-> d, datasets |-> v]
    ELSE [err |-> NoError,
          data_sets |-> Put(d, data_set_name, id),
          datasets |-> FrozenUpdate(v, <<[name |-> data_set_name, id |-> id]>>)]

\* the one element of a set of one element
Only(S) == CHOOSE x \in S : TRUE

\* Registering, with a failed materialization reported as a name not found
Registering_ReportsNotFound(r, data_set_name, version, e, matched_dataset) ==
    LET id == Len(insts) + 1
        added == add(DS(r), datasets[r], data_set_name, id, FALSE)
    IN  IF matched_dataset.err.kind # "none"
        THEN [err |-> Error("DatasetNotFoundError"), data_sets |-> DS(r),
              datasets |-> datasets[r], cache |-> e.cache,
              patterns |-> dataset_patterns[r], new |-> <<>>,
              ret |-> 0, copy |-> FALSE, matchCalls |-> e.matchCalls]
        ELSE [err |-> added.err, data_sets |-> added.data_sets,
              datasets |-> added.datasets, cache |-> e.cache,
              patterns |-> dataset_patterns[r],
              new |-> <<matched_dataset.ds>>, ret |-> id,
              copy |-> version # "" /\ matched_dataset.ds.versioned,
              matchCalls |-> e.matchCalls]

\* _get_dataset for a name that exists_in_catalog_config found (outcome e):
\* the read of the cache, and add of the capability that _resolve_dataset
\* returned (matched_dataset), if it returned one
Registering(r, data_set_name, version, e, matched_dataset) ==
    LET pattern == e.cache[data_set_name]
        id == Len(insts) + 1
        added == add(DS(r), datasets[r], data_set_name, id, FALSE)
        patterns == [dataset_patterns[r] EXCEPT ![pattern] = matched_dataset.template]
    IN  IF matched_dataset.err.kind # "none"
        THEN [err |-> matched_dataset.err, data_sets |-> DS(r),
              datasets |-> datasets[r], cache |-> e.cache,
              patterns |-> patterns, new |-> <<>>,
              ret |-> 0, copy |-> FALSE, matchCalls |-> e.matchCalls]
        ELSE [err |-> added.err, data_sets |-> added.data_sets,
              datasets |-> added.datasets, cache |-> e.cache,
              patterns |-> patterns,
              new |-> <<matched_dataset.ds>>, ret |-> id,
              copy |-> version # "" /\ matched_dataset.ds.versioned,
              matchCalls |-> e.matchCalls]

\* _get_dataset; version is "" for None.  new holds the capability that was
\* built and registered, if any; copy says that the capability returned is a
\* version-overridden copy of the stored one.  The error of a name that is
\* not found carries in ref the suggestions of its message.
_get_dataset(r, data_set_name, version, suggest) ==
    IF Has(DS(r), data_set_name) THEN
        LET id == Get(DS(r), data_set_name) IN
        [err |-> NoError, data_sets |-> DS(r), datasets |-> datasets[r],
         cache |-> cache[r], patterns |-> dataset_patterns[r], new |-> <<>>, ret |-> id,
         copy |-> version # "" /\ insts[id].versioned, matchCalls |-> 0]
    ELSE Only({
         IF e.res THEN
             Only({Registering(r, data_set_name, version, e, matched_dataset) :
                   matched_dataset \in {_resolve_dataset(dataset_patterns[r], data_set_name,
                                                         e.cache[data_set_name])}})
         ELSE [err |-> [kind |-> "DatasetNotFoundError", key |-> "",
                        ref |-> IF suggest
                                THEN get_close_matches(data_set_name, Keys(DS(r)))
                                ELSE <<>>],
               data_sets |-> DS(r),
               datasets |-> datasets[r], cache |-> e.cache,
               patterns |-> dataset_patterns[r], new |-> <<>>, ret |-> 0,
               copy |-> FALSE, matchCalls |-> e.matchCalls]
         : e \in {exists_in_catalog_config(r, data_set_name)}})

\* the state after _get_dataset returned or raised g in catalog r
Resolved(r, data_set_name, g) ==
    /\ Len(insts) + Len(g.new) <= MaxInst
    /\ insts' = insts \o g.new
    /\ data_sets' = [data_sets EXCEPT ![ds_ref[r]] = g.data_sets]
    /\ datasets' = [datasets EXCEPT ![r] = g.datasets]
    /\ cache' = [cache EXCEPT ![r] = g.cache]
    /\ first_registered' =
          IF g.new # <<>> /\ data_set_name \notin DOMAIN first_registered[r]
          THEN [first_registered EXCEPT ![r] =
                   [x \in DOMAIN @ \cup {data_set_name} |->
                       IF x = data_set_name THEN g.ret ELSE @[x]]]
          ELSE first_registered
    /\ first_failure' =
          IF g.err.kind \notin {"none", "DatasetNotFoundError"}
             /\ data_set_name \notin DOMAIN first_failure[r]
          THEN [first_failure EXCEPT ![r] =
                   [x \in DOMAIN @ \cup {data_set_name} |->
                       IF x = data_set_name THEN g.err ELSE @[x]]]
          ELSE first_failure
    /\ dataset_patterns' = [dataset_patterns EXCEPT ![r] = g.patterns]
    /\ UNCHANGED <<alive, ds_ref, layers, sorted_patterns, credentials>>
    /\ UNCHANGED <<ptVars, crVars, thVars>>

Call(op, r, name, g) ==
    [NoCall EXCEPT !.op = op, !.reg = r, !.name = name, !.err = g.err,
                   !.ret = IF g.err.kind = "none" THEN g.ret ELSE 0,
                   !.copy = g.err.kind = "none" /\ g.copy,
                   !.matchCalls = g.matchCalls, !.built = Len(g.new)]

(***************************************************************************)
(* The calls on a catalog.                                                  *)
(***************************************************************************)
\* load(name, version); the capability's own load is outside the catalog
Load(r, name, version) ==
    /\ r \in alive
    /\ \E g \in {_get_dataset(r, name, version, TRUE)} :
       /\ Resolved(r, name, g)
       /\ last' = [Call("load", r, name, g) EXCEPT !.version = version]

Save(r, name) ==
    /\ r \in alive
    /\ \E g \in {_get_dataset(r, name, "", TRUE)} :
       /\ Resolved(r, name, g)
       /\ last' = Call("save", r, name, g)

\* exists(name): dsExists is the answer of the capability's exists()
Exists_CatchesEveryError(r, name, dsExists) ==
    /\ r \in alive
    /\ \E g \in {_get_dataset(r, name, "", TRUE)} :
       /\ Resolved(r, name, g)
       /\ last' = IF g.err.kind # "none"
                  THEN [Call("exists", r, name, g) EXCEPT !.err = NoError, !.res = "false"]
                  ELSE [Call("exists", r, name, g) EXCEPT
                           !.res = IF dsExists THEN "true" ELSE "false"]

Exists(r, name, dsExists) ==
    /\ r \in alive
    /\ \E g \in {_get_dataset(r, name, "", TRUE)} :
       /\ Resolved(r, name, g)
       /\ last' = IF g.err.kind = "DatasetNotFoundError"
                  THEN [Call("exists", r, name, g) EXCEPT !.err = NoError, !.res = "false"]
                  ELSE IF g.err.kind # "none" THEN Call("exists", r, name, g)
                  ELSE [Call("exists", r, name, g) EXCEPT
                           !.res = IF dsExists THEN "true" ELSE "false"]

Release(r, name) ==
    /\ r \in alive
    /\ \E g \in {_get_dataset(r, name, "", TRUE)} :
       /\ Resolved(r, name, g)
       /\ last' = Call("release", r, name, g)

Confirm(r, name) ==
    /\ r \in alive
    /\ \E g \in {_get_dataset(r, name, "", TRUE)} :
       /\ Resolved(r, name, g)
       /\ last' = [Call("confirm", r, name, g) EXCEPT
                      !.err = IF g.err.kind = "none"
                                 /\ (insts \o g.new)[g.ret].type \notin ConfirmTypes
                              THEN Error("DatasetError") ELSE g.err]

\* _get_dataset(name, suggest=...) called directly, as plugins call it
GetDataset(r, name, suggest) ==
    /\ r \in alive
    /\ \E g \in {_get_dataset(r, name, "", suggest)} :
       /\ Resolved(r, name, g)
       /\ last' = Call("_get_dataset", r, name, g)

ExistsInCatalogConfig(r, name) ==
    /\ r \in alive
    /\ \E e \in {exists_in_catalog_config(r, name)} :
       /\ cache' = [cache EXCEPT ![r] = e.cache]
       /\ last' = [NoCall EXCEPT !.op = "exists_in_catalog_config", !.reg = r,
                                 !.name = name, !.matchCalls = e.matchCalls,
                                 !.res = IF e.res THEN "true" ELSE "false"]
    /\ UNCHANGED <<alive, insts, ds_ref, data_sets, datasets, layers, dataset_patterns,
                   sorted_patterns, credentials, first_registered, first_failure>>
    /\ UNCHANGED <<ptVars, crVars, thVars>>

(***************************************************************************)
(* DataCatalog.list.  The filters of the model are regular expressions made *)
(* of literal characters and of ".", and the invalid "(".                   *)
(***************************************************************************)
\* the characters that str.strip() removes
IsSpace(c) == c \in {" ", "\t"}

\* re.compile raises re.error for a parenthesis that is not closed
CompileFails(p) == Contains(p, "(")

\* the compiled pattern matches s at position i, ignoring case
MatchesAt(p, s, i) ==
    /\ i + Len(p) - 1 <= Len(s)
    /\ \A k \in 1..Len(p) : p[k] = "." \/ Lower(p[k]) = Lower(s[i + k - 1])

\* pattern.search(s)
re_search(p, s) == \E i \in 1..(Len(s) + 1) : MatchesAt(p, s, i)

list_BlankListsAll(d, regex_search) ==
    IF regex_search = None
    THEN [err |-> NoError, listed |-> [i \in 1..Len(d) |-> d[i].name]]
    ELSE IF CompileFails(regex_search)
    THEN [err |-> Error("SyntaxError"), listed |-> <<>>]
    ELSE LET searched(e) == re_search(regex_search, e.name)
             found == SelectSeq(d, searched)
         IN  [err |-> NoError, listed |-> [i \in 1..Len(found) |-> found[i].name]]

list(d, regex_search) ==
    IF regex_search = None
    THEN [err |-> NoError, listed |-> [i \in 1..Len(d) |-> d[i].name]]
    ELSE IF \A i \in 1..Len(regex_search) : IsSpace(regex_search[i])
    THEN [err |-> NoError, listed |-> <<>>]
    ELSE IF CompileFails(regex_search)
    THEN [err |-> Error("SyntaxError"), listed |-> <<>>]
    ELSE LET searched(e) == re_search(regex_search, e.name)
             found == SelectSeq(d, searched)
         IN  [err |-> NoError, listed |-> [i \in 1..Len(found) |-> found[i].name]]

List(r, regex_search) ==
    /\ r \in alive
    /\ \E l \in {list(DS(r), regex_search)} :
       last' = [NoCall EXCEPT !.op = "list", !.reg = r, !.regex_search = regex_search,
                              !.err = l.err, !.listed = l.listed]
    /\ UNCHANGED <<alive, insts, ds_ref, data_sets, datasets, layers, dataset_patterns,
                   sorted_patterns, cache, credentials, first_registered, first_failure>>
    /\ UNCHANGED <<ptVars, crVars, thVars>>

\* a capability that the caller built, or a MemoryDataset made by add_feed_dict
CallerDataset(origin) ==
    [type |-> <<"n">>, config |-> NoMap, versioned |-> FALSE, load_version |-> "",
     origin |-> origin]

\* add_all and add_feed_dict: add per entry, in order, until one raises
RECURSIVE AddLoop_ContinuesAfterFailure(_, _, _, _, _)
AddLoop_ContinuesAfterFailure(names, replace, d, v, base) ==
    IF names = <<>> THEN [err |-> NoError, data_sets |-> d, datasets |-> v, n |-> base]
    ELSE LET a == add(d, v, Head(names), base + 1, replace) IN
         IF a.err.kind # "none"
         THEN [AddLoop_ContinuesAfterFailure(Tail(names), replace, d, v, base)
                  EXCEPT !.err = a.err]
         ELSE AddLoop_ContinuesAfterFailure(Tail(names), replace, a.data_sets,
                                            a.datasets, base + 1)

RECURSIVE AddLoop(_, _, _, _, _)
AddLoop(names, replace, d, v, base) ==
    IF names = <<>> THEN [err |-> NoError, data_sets |-> d, datasets |-> v, n |-> base]
    ELSE LET a == add(d, v, Head(names), base + 1, replace) IN
         IF a.err.kind # "none"
         THEN [err |-> a.err, data_sets |-> d, datasets |-> v, n |-> base]
         ELSE AddLoop(Tail(names), replace, a.data_sets, a.datasets, base + 1)

\* the state after add, add_all or add_feed_dict on catalog r
Added(op, r, names, replace, origin) ==
    /\ r \in alive
    /\ \E a \in {AddLoop(names, replace, DS(r), datasets[r], Len(insts))} :
       LET made == a.n - Len(insts) IN
       /\ a.n <= MaxInst
       /\ insts' = insts \o [i \in 1..made |-> CallerDataset(origin)]
       /\ data_sets' = [data_sets EXCEPT ![ds_ref[r]] = a.data_sets]
       /\ datasets' = [datasets EXCEPT ![r] = a.datasets]
       /\ last' = [NoCall EXCEPT !.op = op, !.reg = r, !.name = Head(names),
                                 !.names = names,
                                 !.err = a.err, !.built = made, !.replace = replace]
    /\ UNCHANGED <<alive, ds_ref, layers, dataset_patterns, sorted_patterns, cache,
                   credentials, first_registered, first_failure>>
    /\ UNCHANGED <<ptVars, crVars, thVars>>

Add(r, name, replace) == Added("add", r, <<name>>, replace, "add")

AddAll(r, names, replace) == Added("add_all", r, names, replace, "add")

AddFeedDict(r, names, replace) == Added("add_feed_dict", r, names, replace, "memory")

\* the dict object that __init__ keeps for its data_sets argument:
\* dict(data_sets or {}) is a new dict with the same entries
InitDataSets_KeepsArgument(argument, fresh) == argument

InitDataSets(argument, fresh) == fresh

ShallowCopy ==
    /\ "catalog" \in alive
    /\ "copy" \notin alive
    /\ alive' = alive \cup {"copy"}
    /\ ds_ref' = [ds_ref EXCEPT !["copy"] = InitDataSets(ds_ref["catalog"], "dict2")]
    /\ data_sets' = [data_sets EXCEPT ![ds_ref'["copy"]] = DS("catalog")]
    /\ datasets' = [datasets EXCEPT !["copy"] = FrozenUpdate(NoView, DS("catalog"))]
    /\ layers' = [layers EXCEPT !["copy"] = layers["catalog"]]
    /\ dataset_patterns' = [dataset_patterns EXCEPT !["copy"] = dataset_patterns["catalog"]]
    /\ sorted_patterns' = [sorted_patterns EXCEPT !["copy"] =
                              SortPatterns(DOMAIN dataset_patterns["catalog"])]
    /\ cache' = [cache EXCEPT !["copy"] = NoCache]
    /\ last' = [NoCall EXCEPT !.op = "shallow_copy", !.reg = "copy"]
    /\ UNCHANGED <<insts, credentials, first_registered, first_failure>>
    /\ UNCHANGED <<ptVars, crVars, thVars>>

(***************************************************************************)
(* Attribute assignment and deletion on catalog.datasets.                   *)
(***************************************************************************)
ViewKeys == {_sub_nonword_chars(n) : n \in Names}

\* _FrozenDatasets.__setattr__ always raises
ViewSetAttr(r, key) ==
    /\ r \in alive
    /\ last' = [NoCall EXCEPT !.op = "setattr", !.reg = r, !.name = key,
                   !.err = [kind |-> "AttributeError",
                            key |-> IF key \in DOMAIN datasets[r]
                                    THEN "Operation not allowed! Please change datasets through configuration."
                                    ELSE "Operation not allowed! Please use DataCatalog.add() instead.",
                            ref |-> <<>>]]
    /\ UNCHANGED <<alive, insts, ds_ref, data_sets, datasets, layers, dataset_patterns,
                   sorted_patterns, cache, credentials, first_registered, first_failure>>
    /\ UNCHANGED <<ptVars, crVars, thVars>>

\* the class defines no __delattr__: object.__delattr__ removes the key from
\* __dict__, and raises the interpreter's AttributeError for a missing one
ViewDelAttr(r, key) ==
    /\ r \in alive
    /\ IF key \in DOMAIN datasets[r]
       THEN /\ datasets' = [datasets EXCEPT ![r] = [x \in DOMAIN @ \ {key} |-> @[x]]]
            /\ last' = [NoCall EXCEPT !.op = "delattr", !.reg = r, !.name = key]
       ELSE /\ datasets' = datasets
            /\ last' = [NoCall EXCEPT !.op = "delattr", !.reg = r, !.name = key,
                           !.err = [kind |-> "AttributeError", key |-> "no such attribute",
                                    ref |-> <<>>]]
    /\ UNCHANGED <<alive, insts, ds_ref, data_sets, layers, dataset_patterns,
                   sorted_patterns, cache, credentials, first_registered, first_failure>>
    /\ UNCHANGED <<ptVars, crVars, thVars>>

(***************************************************************************)
(* load and save called from the threads of a concurrent host.  The class   *)
(* takes no lock, so the interpreter may switch threads between any two     *)
(* statements of _get_dataset, exists_in_catalog_config and add: each       *)
(* action below is one statement, or one test, of thread t on "catalog".    *)
(***************************************************************************)
InCall(t) == th_pc[t] \notin {"idle", "done"}

ThreadFrame == UNCHANGED <<alive, ds_ref, layers, sorted_patterns,
                           credentials, first_registered, first_failure, last, ptVars, crVars>>

\* the call ends: it returns ret or raises err
Finished(t, err, ret) ==
    /\ th_pc' = [th_pc EXCEPT ![t] = "done"]
    /\ th_out' = [th_out EXCEPT ![t].err = err, ![t].ret = ret]

\* load(name) or save(name) enters _get_dataset and tests
\* "data_set_name not in self._data_sets"
ThCall(t, op, name) ==
    /\ "catalog" \in alive
    /\ th_pc[t] = "idle"
    /\ th_pc' = [th_pc EXCEPT ![t] = IF Has(DS("catalog"), name) THEN "fetch" ELSE "exists"]
    /\ th_call' = [u \in Threads |->
                      IF u = t
                      THEN [op |-> op, name |-> name,
                            unregistered |-> ~Has(DS("catalog"), name),
                            overlapped |-> \E w \in Threads \ {t} : InCall(w)]
                      ELSE IF InCall(u) THEN [th_call[u] EXCEPT !.overlapped = TRUE]
                      ELSE th_call[u]]
    /\ UNCHANGED <<insts, data_sets, datasets, cache, dataset_patterns, th_local, th_out>>
    /\ ThreadFrame

\* exists_in_catalog_config: the test of the exact map and of the cache
ThExists(t) ==
    /\ th_pc[t] = "exists"
    /\ th_pc' = [th_pc EXCEPT ![t] =
                    IF Has(DS("catalog"), th_call[t].name)
                       \/ th_call[t].name \in DOMAIN cache["catalog"]
                    THEN "resolve" ELSE "match"]
    /\ UNCHANGED <<insts, data_sets, datasets, cache, dataset_patterns, th_call, th_local, th_out>>
    /\ ThreadFrame

\* exists_in_catalog_config: the match against the patterns and the write of
\* the cache
ThMatch(t) ==
    /\ th_pc[t] = "match"
    /\ \E matched_pattern \in {match_name_against_patterns(sorted_patterns["catalog"],
                                                           th_call[t].name)} :
          IF matched_pattern # <<>>
          THEN /\ cache' = [cache EXCEPT !["catalog"] =
                               [x \in DOMAIN @ \cup {th_call[t].name} |->
                                   IF x = th_call[t].name THEN matched_pattern ELSE @[x]]]
               /\ th_pc' = [th_pc EXCEPT ![t] = "resolve"]
          ELSE /\ cache' = cache
               /\ th_pc' = [th_pc EXCEPT ![t] = "notfound"]
    /\ UNCHANGED <<insts, data_sets, datasets, dataset_patterns, th_call, th_local, th_out>>
    /\ ThreadFrame

\* _get_dataset: the suggestions and the raise for a name nothing matches
ThNotFound(t) ==
    /\ th_pc[t] = "notfound"
    /\ Finished(t, [kind |-> "DatasetNotFoundError", key |-> "",
                    ref |-> get_close_matches(th_call[t].name, Keys(DS("catalog")))], 0)
    /\ UNCHANGED <<insts, data_sets, datasets, cache, dataset_patterns, th_call, th_local>>
    /\ ThreadFrame

\* _get_dataset: the read of the cache and _resolve_dataset
ThResolve(t) ==
    /\ th_pc[t] = "resolve"
    /\ IF th_call[t].name \notin DOMAIN cache["catalog"]
       THEN /\ Finished(t, [kind |-> "KeyError", key |-> "", ref |-> th_call[t].name], 0)
            /\ UNCHANGED <<insts, th_local, dataset_patterns>>
       ELSE \E pattern \in {cache["catalog"][th_call[t].name]} :
            \E matched_dataset \in {_resolve_dataset(dataset_patterns["catalog"],
                                                     th_call[t].name, pattern)} :
               /\ dataset_patterns' = [dataset_patterns EXCEPT !["catalog"][pattern] =
                                          matched_dataset.template]
               /\ IF matched_dataset.err.kind # "none"
                  THEN /\ Finished(t, matched_dataset.err, 0)
                       /\ UNCHANGED <<insts, th_local>>
                  ELSE /\ Len(insts) < MaxInst
                       /\ insts' = Append(insts, matched_dataset.ds)
                       /\ th_local' = [th_local EXCEPT ![t].matched_dataset = Len(insts) + 1]
                       /\ th_out' = [th_out EXCEPT ![t].built = @ + 1]
                       /\ th_pc' = [th_pc EXCEPT ![t] = "add"]
    /\ UNCHANGED <<data_sets, datasets, cache, th_call>>
    /\ ThreadFrame

\* add: the test "data_set_name in self._data_sets", with replace=False
ThAddCheck(t) ==
    /\ th_pc[t] = "add"
    /\ IF Has(DS("catalog"), th_call[t].name)
       THEN Finished(t, Error("DatasetAlreadyExistsError"), 0)
       ELSE /\ th_pc' = [th_pc EXCEPT ![t] = "put"]
            /\ th_out' = th_out
    /\ UNCHANGED <<insts, data_sets, datasets, cache, dataset_patterns, th_call, th_local>>
    /\ ThreadFrame

\* add: self._data_sets[data_set_name] = data_set
ThAddPut(t) ==
    /\ th_pc[t] = "put"
    /\ data_sets' = [data_sets EXCEPT ![ds_ref["catalog"]] =
                        Put(@, th_call[t].name, th_local[t].matched_dataset)]
    /\ th_pc' = [th_pc EXCEPT ![t] = "view"]
    /\ UNCHANGED <<insts, datasets, cache, dataset_patterns, th_call, th_local, th_out>>
    /\ ThreadFrame

\* add: the read of self.datasets, the argument of _FrozenDatasets(...)
ThAddView(t) ==
    /\ th_pc[t] = "view"
    /\ th_local' = [th_local EXCEPT ![t].datasets = datasets["catalog"]]
    /\ th_pc' = [th_pc EXCEPT ![t] = "rebind"]
    /\ UNCHANGED <<insts, data_sets, datasets, cache, dataset_patterns, th_call, th_out>>
    /\ ThreadFrame

\* add: self.datasets = the view built from the one read and the new entry
ThAddRebind(t) ==
    /\ th_pc[t] = "rebind"
    /\ datasets' = [datasets EXCEPT !["catalog"] =
                       FrozenUpdate(th_local[t].datasets,
                           <<[name |-> th_call[t].name, id |-> th_local[t].matched_dataset]>>)]
    /\ th_pc' = [th_pc EXCEPT ![t] = "fetch"]
    /\ UNCHANGED <<insts, data_sets, cache, dataset_patterns, th_call, th_local, th_out>>
    /\ ThreadFrame

\* _get_dataset: data_set = self._data_sets[data_set_name], and the return
ThFetch(t) ==
    /\ th_pc[t] = "fetch"
    /\ IF Has(DS("catalog"), th_call[t].name)
       THEN Finished(t, NoError, Get(DS("catalog"), th_call[t].name))
       ELSE Finished(t, [kind |-> "KeyError", key |-> "", ref |-> th_call[t].name], 0)
    /\ UNCHANGED <<insts, data_sets, datasets, cache, dataset_patterns, th_call, th_local>>
    /\ ThreadFrame

\* the caller takes the outcome and is free to call again
ThReturn(t) ==
    /\ th_pc[t] = "done"
    /\ th_pc' = [th_pc EXCEPT ![t] = "idle"]
    /\ th_call' = [th_call EXCEPT ![t] = NoThreadCall]
    /\ th_local' = [th_local EXCEPT ![t] = NoLocal]
    /\ th_out' = [th_out EXCEPT ![t] = NoOut]
    /\ UNCHANGED <<insts, data_sets, datasets, cache, dataset_patterns>>
    /\ ThreadFrame

(***************************************************************************)
(* The specification of the catalog.                                        *)
(***************************************************************************)
\* the dicts given to add_all and add_feed_dict: two names in order
NameDicts == {<<nm_ab, nm_c>>, <<nm_c, nm_ab>>, <<nm_brace, nm_ba>>, <<nm_ba, nm_brace>>}

Construct == \E c \in Catalogs, lv \in LoadVersionChoices : FromConfig(c, lv)

Next ==
    \/ Construct
    \/ \E n \in Names, v \in {"", "v"} : Load("catalog", n, v)
    \/ \E n \in Names : Save("catalog", n)
    \/ \E n \in Names, b \in BOOLEAN : Exists("catalog", n, b)
    \/ \E n \in Names : Release("catalog", n)
    \/ \E n \in Names : Confirm("catalog", n)
    \/ \E n \in Names : ExistsInCatalogConfig("catalog", n)
    \/ \E n \in Names, rep \in BOOLEAN : Add("catalog", n, rep)

Spec == Init /\ [][Next]_vars

\* a catalog filled by add, add_all and add_feed_dict
NextAdd ==
    \/ Construct
    \/ \E n \in Names, rep \in BOOLEAN : Add("catalog", n, rep)
    \/ \E ns \in NameDicts, rep \in BOOLEAN : AddAll("catalog", ns, rep)
    \/ \E ns \in NameDicts, rep \in BOOLEAN : AddFeedDict("catalog", ns, rep)
    \/ \E n \in Names : Load("catalog", n, "")

SpecAdd == Init /\ [][NextAdd]_vars

\* a catalog and its shallow copy
NextCopy ==
    \/ Construct
    \/ ShallowCopy
    \/ \E r \in Regs, n \in {nm_ab, nm_c, nm_brace}, rep \in BOOLEAN : Add(r, n, rep)
    \/ \E r \in Regs, n \in {nm_ab, nm_c, nm_brace} : Load(r, n, "")

SpecCopy == Init /\ [][NextCopy]_vars

\* a catalog and attribute access on its datasets view
NextView ==
    \/ Construct
    \/ \E n \in Names, rep \in BOOLEAN : Add("catalog", n, rep)
    \/ \E k \in ViewKeys : ViewSetAttr("catalog", k)
    \/ \E k \in ViewKeys : ViewDelAttr("catalog", k)

SpecView == Init /\ [][NextView]_vars

\* a catalog asked for names that nothing resolves
nm_a == <<"a">>
NotFoundNames == {nm_a, nm_brace, nm_ab}

NextNotFound ==
    \/ Construct
    \/ \E n \in {nm_a, nm_brace, nm_c}, rep \in BOOLEAN : Add("catalog", n, rep)
    \/ \E n \in NotFoundNames, v \in {"", "v"} : Load("catalog", n, v)
    \/ \E n \in NotFoundNames : Save("catalog", n)
    \/ \E n \in NotFoundNames : Release("catalog", n)
    \/ \E n \in NotFoundNames : Confirm("catalog", n)
    \/ \E n \in NotFoundNames, suggest \in BOOLEAN : GetDataset("catalog", n, suggest)

SpecNotFound == Init /\ [][NextNotFound]_vars

\* a catalog whose names collide in the datasets view, and its shallow copy
nm_adot == <<"a", ".">>
nm_aopen == <<"a", "{">>
cfg_plain == [x \in {"type"} |-> StrVal(<<"n">>)]
CatalogCollide == << [name |-> nm_adot, config |-> cfg_plain],
                     [name |-> nm_aopen, config |-> cfg_plain],
                     [name |-> pt_n_b, config |-> cfg_n_b] >>
CollideNames == {nm_adot, nm_aopen, nm_brace, nm_ab}

ConstructCollide == FromConfig(CatalogCollide, {})

NextCollide ==
    \/ ConstructCollide
    \/ ShallowCopy
    \/ \E r \in Regs, n \in CollideNames, rep \in BOOLEAN : Add(r, n, rep)
    \/ \E r \in Regs, n \in CollideNames : Load(r, n, "")

SpecCollide == Init /\ [][NextCollide]_vars

\* a catalog that is listed
RegexChoices ==
    {None, <<>>, <<" ">>, <<" ", "\t">>, <<"a">>, <<"A", ".">>, <<".", "b">>,
     <<" ", "a">>, <<"(">>, <<"}">>}

NextList ==
    \/ Construct
    \/ \E n \in {nm_c, nm_brace, pt_n_b}, rep \in BOOLEAN : Add("catalog", n, rep)
    \/ \E n \in {nm_ab, nm_ba} : Load("catalog", n, "")
    \/ \E regex_search \in RegexChoices : List("catalog", regex_search)

SpecList == Init /\ [][NextList]_vars

\* a catalog that two threads load from and save to
NextThreads ==
    \/ Construct
    \/ \E t \in Threads, op \in {"load", "save"}, n \in Names : ThCall(t, op, n)
    \/ \E t \in Threads : ThExists(t)
    \/ \E t \in Threads : ThMatch(t)
    \/ \E t \in Threads : ThNotFound(t)
    \/ \E t \in Threads : ThResolve(t)
    \/ \E t \in Threads : ThAddCheck(t)
    \/ \E t \in Threads : ThAddPut(t)
    \/ \E t \in Threads : ThAddView(t)
    \/ \E t \in Threads : ThAddRebind(t)
    \/ \E t \in Threads : ThFetch(t)
    \/ \E t \in Threads : ThReturn(t)

SpecThreads == Init /\ [][NextThreads]_vars

\* a catalog with templates that do not materialize for every name: the type
\* of "{n}.b" is the placeholder n, the filepath of "{n}.{d}" names z, which
\* no pattern binds
nm_db == <<"d", ".", "b">>
cfg_type_n == [x \in {"type", "filepath"} |->
                CASE x = "type" -> StrVal(<<"{", "n", "}">>)
                  [] x = "filepath" -> StrVal(<<"{", "n", "}", ".", "c">>)]
CatalogFail == << [name |-> nm_c, config |-> cfg_plain],
                  [name |-> pt_n_b, config |-> cfg_type_n],
                  [name |-> pt_n_d, config |-> cfg_n_d] >>
FailNames == {nm_ab, nm_db, nm_ba, nm_brace}

ConstructFail == FromConfig(CatalogFail, {})

NextFail ==
    \/ ConstructFail
    \/ \E n \in FailNames, v \in {"", "v"} : Load("catalog", n, v)
    \/ \E n \in FailNames : Save("catalog", n)
    \/ \E n \in FailNames, b \in BOOLEAN : Exists("catalog", n, b)
    \/ \E n \in FailNames : Release("catalog", n)
    \/ \E n \in FailNames : Confirm("catalog", n)
    \/ \E n \in {nm_ab, nm_ba}, rep \in BOOLEAN : Add("catalog", n, rep)

SpecFail == Init /\ [][NextFail]_vars

(***************************************************************************)
(* The pattern table alone: DataCatalog(dataset_patterns=...) sorts the     *)
(* patterns, match_name_against_patterns matches names against them.        *)
(***************************************************************************)
pt_n_lit_b == <<"{", "n", "}", "b">>
pt_a_d == <<"a", ".", "{", "d", "}">>
pt_n == <<"{", "n", "}">>
pt_n_then_d == <<"{", "n", "}", "{", "d", "}">>
pt_n_n == <<"{", "n", "}", ".", "{", "n", "}">>

\* the patterns from which a pattern table is drawn
PatternUniverse == {pt_n_b, pt_n_d, pt_n_lit_b, pt_a_d, pt_n, pt_n_then_d, pt_n_n}

\* the names matched against it: every string of up to MaxNameLen characters
NameChars == {"a", "b", "."}
AllNames == UNION {[1..k -> NameChars] : k \in 1..MaxNameLen}

InitPatterns ==
    /\ alive = {}
    /\ insts = <<>>
    /\ ds_ref = [r \in Regs |-> "dict1"]
    /\ data_sets = [o \in Dicts |-> <<>>]
    /\ datasets = [r \in Regs |-> NoView]
    /\ layers = [r \in Regs |-> {}]
    /\ dataset_patterns = [r \in Regs |-> NoPatterns]
    /\ sorted_patterns = [r \in Regs |-> <<>>]
    /\ cache = [r \in Regs |-> NoCache]
    /\ credentials = NoMap
    /\ first_registered = [r \in Regs |-> NoFirst]
    /\ first_failure = [r \in Regs |-> NoFailure]
    /\ last = NoCall
    /\ pt_pc = "new"
    /\ pt_patterns \in {S \in SUBSET PatternUniverse : Cardinality(S) <= MaxPatterns}
    /\ pt_sorted = <<>>
    /\ pt_name = <<>>
    /\ pt_match = <<>>
    /\ cr_pc = "off"
    /\ cr_config = NoMap
    /\ cr_result = NoResult
    /\ ThreadsIdle

\* __init__: self._sorted_dataset_patterns = sorted(self.dataset_patterns.keys(), key=...)
PtInit ==
    /\ pt_pc = "new"
    /\ pt_pc' = "sorted"
    /\ pt_sorted' = SortPatterns(pt_patterns)
    /\ UNCHANGED <<pt_patterns, pt_name, pt_match>>
    /\ UNCHANGED <<catVars, crVars, thVars>>

PtMatch(dataset_name) ==
    /\ pt_pc = "sorted"
    /\ pt_pc' = "matched"
    /\ pt_name' = dataset_name
    /\ pt_match' = match_name_against_patterns(pt_sorted, dataset_name)
    /\ UNCHANGED <<pt_patterns, pt_sorted>>
    /\ UNCHANGED <<catVars, crVars, thVars>>

NextPatterns ==
    \/ PtInit
    \/ \E n \in AllNames : PtMatch(n)

SpecPatterns == InitPatterns /\ [][NextPatterns]_vars

(***************************************************************************)
(* The credential resolver alone: _resolve_credentials(config, credentials) *)
(* on configs with credential references at several depths.                 *)
(***************************************************************************)
\* the mappings nested in the configs
la_sep == [x \in {"sep"} |-> StrVal(<<"b">>)]
la_k == [x \in {CREDENTIALS_KEY} |-> StrVal(<<"k">>)]
la_q == [x \in {CREDENTIALS_KEY} |-> StrVal(<<"q">>)]
la_deep_k == [x \in {"load_args"} |-> MapVal(la_k)]
la_deep_q == [x \in {"load_args"} |-> MapVal(la_q)]

\* the values that a config of the universe can have under each key
ValuesOf(key) ==
    CASE key = "type" -> {StrVal(<<"n">>)}
      [] key = "filepath" -> {StrVal(<<"c">>)}
      [] key = CREDENTIALS_KEY ->
            {StrVal(<<"k">>), StrVal(<<"q">>), MapVal(la_k), ListVal(la_k)}
      [] key = "load_args" ->
            {MapVal(la_sep), MapVal(la_k), MapVal(la_q), MapVal(la_deep_k),
             MapVal(la_deep_q), ListVal(la_k)}

ConfigUniverse ==
    UNION {
        {f \in [{"type"} \cup S -> UNION {ValuesOf(key) : key \in {"type"} \cup S}] :
            \A key \in DOMAIN f : f[key] \in ValuesOf(key)} :
        S \in SUBSET {"filepath", CREDENTIALS_KEY, "load_args"}}

\* the credentials tables: with the entry k, and empty
CredentialTables == {CredentialsTable, NoMap}

InitCredentials ==
    /\ alive = {}
    /\ insts = <<>>
    /\ ds_ref = [r \in Regs |-> "dict1"]
    /\ data_sets = [o \in Dicts |-> <<>>]
    /\ datasets = [r \in Regs |-> NoView]
    /\ layers = [r \in Regs |-> {}]
    /\ dataset_patterns = [r \in Regs |-> NoPatterns]
    /\ sorted_patterns = [r \in Regs |-> <<>>]
    /\ cache = [r \in Regs |-> NoCache]
    /\ credentials \in CredentialTables
    /\ first_registered = [r \in Regs |-> NoFirst]
    /\ first_failure = [r \in Regs |-> NoFailure]
    /\ last = NoCall
    /\ pt_pc = "off"
    /\ pt_patterns = {}
    /\ pt_sorted = <<>>
    /\ pt_name = <<>>
    /\ pt_match = <<>>
    /\ cr_pc = "new"
    /\ cr_config \in ConfigUniverse
    /\ cr_result = NoResult
    /\ ThreadsIdle

\* _resolve_credentials(config, credentials): the result is built from a deep
\* copy of config, and nothing is assigned to config or to credentials
CrResolve ==
    /\ cr_pc = "new"
    /\ cr_pc' = "done"
    /\ cr_result' = _resolve_credentials(cr_config, credentials)
    /\ UNCHANGED cr_config
    /\ UNCHANGED <<catVars, ptVars, thVars>>

NextCredentials == CrResolve

SpecCredentials == InitCredentials /\ [][NextCredentials]_vars

(***************************************************************************)
(* Properties.                                                              *)
(***************************************************************************)
\* the patterns of the table that parse the name last matched
PtMatching == {p \in pt_patterns : parse(p, pt_name).ok}

\* the position of a pattern in the sorted list
PtIndex(p) == CHOOSE i \in 1..Len(pt_sorted) : pt_sorted[i] = p

\* C2: match_name_against_patterns returns no match exactly when no pattern
\* of the table matches the name; otherwise it returns the matching pattern
\* that comes first in the sorted order, and no matching pattern has a higher
\* specificity than the one returned.
C2_FirstMatchHasHighestSpecificity ==
    pt_pc = "matched" =>
        /\ (pt_match = <<>>) <=> (PtMatching = {})
        /\ PtMatching # {} =>
              /\ pt_match \in PtMatching
              /\ \A q \in PtMatching :
                    /\ PtIndex(pt_match) <= PtIndex(q)
                    /\ _specificity(q) <= _specificity(pt_match)

\* C2 witness: a name matched by several patterns of different specificity
C2_Witness ==
    /\ pt_pc = "matched"
    /\ Cardinality(PtMatching) >= 2
    /\ \E q \in PtMatching : _specificity(q) < _specificity(pt_match)

\* every pattern of the table is in the sorted list exactly once
PtSortedIsPermutation ==
    /\ Len(pt_sorted) = Cardinality(pt_patterns)
    /\ {pt_sorted[i] : i \in 1..Len(pt_sorted)} = pt_patterns

\* C3 as claimed: higher specificity first, then FEWER placeholders first,
\* then lexicographically ascending; no two patterns tie.
C3_Original_FewerPlaceholdersFirst ==
    pt_pc # "new" =>
        /\ PtSortedIsPermutation
        /\ \A i, j \in 1..Len(pt_sorted) : i < j =>
              LET p == pt_sorted[i]
                  q == pt_sorted[j]
              IN  \/ _specificity(p) > _specificity(q)
                  \/ /\ _specificity(p) = _specificity(q)
                     /\ Count(p, "{") < Count(q, "{")
                  \/ /\ _specificity(p) = _specificity(q)
                     /\ Count(p, "{") = Count(q, "{")
                     /\ StrLess(p, q)

\* C3 amended: higher specificity first; among patterns of equal
\* specificity the one with MORE placeholders first; among patterns equal on
\* both, lexicographically ascending.  The order is total: any two distinct
\* patterns of the table are strictly ordered by one of the three keys.
C3_MorePlaceholdersFirst ==
    pt_pc # "new" =>
        /\ PtSortedIsPermutation
        /\ \A i, j \in 1..Len(pt_sorted) : i < j =>
              LET p == pt_sorted[i]
                  q == pt_sorted[j]
              IN  \/ _specificity(p) > _specificity(q)
                  \/ /\ _specificity(p) = _specificity(q)
                     /\ Count(p, "{") > Count(q, "{")
                  \/ /\ _specificity(p) = _specificity(q)
                     /\ Count(p, "{") = Count(q, "{")
                     /\ StrLess(p, q)

\* C3 witness: a sorted table where the second key decides one pair and the
\* third key another
C3_Witness ==
    /\ pt_pc = "sorted"
    /\ \E i, j \in 1..Len(pt_sorted) :
          /\ i < j
          /\ _specificity(pt_sorted[i]) = _specificity(pt_sorted[j])
          /\ Count(pt_sorted[i], "{") # Count(pt_sorted[j], "{")
    /\ \E i, j \in 1..Len(pt_sorted) :
          /\ i < j
          /\ _specificity(pt_sorted[i]) = _specificity(pt_sorted[j])
          /\ Count(pt_sorted[i], "{") = Count(pt_sorted[j], "{")

(***************************************************************************)
(* Properties of the catalog.                                               *)
(***************************************************************************)
\* the calls that resolve a name through _get_dataset and fail when it fails
ResolutionOps == {"load", "save", "release", "confirm"}

\* the step is a resolution of name n on catalog r without a version override
ResolutionStep(r, n) ==
    /\ last'.op \in ResolutionOps
    /\ last'.reg = r
    /\ last'.name = n
    /\ last'.version = ""

\* n matches some pattern of catalog r
MatchesPattern(r, n) == \E p \in DOMAIN dataset_patterns[r] : parse(p, n).ok

\* C1 as claimed: the first resolution of a pattern-matched name adds exactly
\* one new entry for it, and every later resolution does no pattern matching
\* and returns the instance that the first resolution registered.
C1_Original_MatchOnceRegisterForever ==
    [][\A r \in Regs, n \in Names : ResolutionStep(r, n) =>
          /\ (~Has(DS(r), n) /\ MatchesPattern(r, n)) =>
                /\ Keys(DS(r))' = Keys(DS(r)) \cup {n}
                /\ Len(DS(r)') = Len(DS(r)) + 1
          /\ n \in DOMAIN first_registered[r] =>
                /\ last'.matchCalls = 0
                /\ last'.ret = first_registered[r][n]]_vars

\* C1 amended: a resolution of a pattern-matched name that is not registered
\* either fails with the error of the materialization and registers nothing,
\* or adds exactly one new entry, for that name and a new instance, and
\* returns that instance; a resolution of a registered name does no pattern
\* matching, changes neither the exact-name map nor the cache, and returns the
\* instance stored for the name; and the instance stored for a name changes
\* only in an add, add_all or add_feed_dict call with replace=true.
C1_MatchOnceRegisterUntilReplaced ==
    [][/\ \A r \in Regs, n \in Names : ResolutionStep(r, n) =>
             /\ (~Has(DS(r), n) /\ MatchesPattern(r, n)) =>
                   \/ /\ last'.ret = 0
                      /\ last'.err.kind \notin {"none", "DatasetNotFoundError"}
                      /\ DS(r)' = DS(r)
                   \/ /\ last'.ret = Len(insts) + 1
                      /\ Len(insts') = Len(insts) + 1
                      /\ DS(r)' = Append(DS(r), [name |-> n, id |-> last'.ret])
                      /\ last'.matchCalls <= 1
             /\ Has(DS(r), n) =>
                   /\ last'.matchCalls = 0
                   /\ last'.ret = Get(DS(r), n)
                   /\ DS(r)' = DS(r)
                   /\ cache' = cache
                   /\ insts' = insts
       /\ \A r \in Regs, n \in Names :
             (Has(DS(r), n) /\ Has(DS(r)', n) /\ Get(DS(r)', n) # Get(DS(r), n)) =>
                 /\ last'.op \in {"add", "add_all", "add_feed_dict"}
                 /\ last'.replace]_vars

\* C1 witness: a name that a first resolution registered from a pattern has
\* been resolved again, without matching, to the same instance
C1_Witness ==
    /\ last.op \in ResolutionOps
    /\ last.version = ""
    /\ last.name \in DOMAIN first_registered[last.reg]
    /\ last.built = 0
    /\ last.matchCalls = 0
    /\ last.ret = first_registered[last.reg][last.name]

\* C4 as claimed: when load or save has returned successfully, every name in
\* the pattern match cache is a key of the exact-name map.
C4_Original_EveryCachedNameRegistered ==
    (last.op \in {"load", "save"} /\ last.err.kind = "none") =>
        \A n \in DOMAIN cache[last.reg] : Has(DS(last.reg), n)

\* C4 amended: when load or save of a name has returned successfully, that
\* name is a key of the exact-name map, and so it is if it is in the cache;
\* the stored instance is the one the call used.  Other names of the cache
\* need not be registered.
C4_ResolvedNameRegistered ==
    (last.op \in {"load", "save"} /\ last.err.kind = "none") =>
        /\ Has(DS(last.reg), last.name)
        /\ Get(DS(last.reg), last.name) = last.ret

\* C4 witness: a successful load of a cached, pattern-matched name while
\* another cached name is not registered
C4_Witness ==
    /\ last.op = "load"
    /\ last.err.kind = "none"
    /\ last.name \in DOMAIN cache[last.reg]
    /\ Has(DS(last.reg), last.name)
    /\ \E n \in DOMAIN cache[last.reg] : ~Has(DS(last.reg), n)

\* a config that still holds a credential reference: a string under the
\* credentials key, at any depth
RECURSIVE HasCredentialReference(_)
HasCredentialReference(m) ==
    \E k \in DOMAIN m :
        \/ k = CREDENTIALS_KEY /\ m[k].tag = "str"
        \/ m[k].tag = "map" /\ HasCredentialReference(m[k].m)

\* C5: a capability built from a pattern is built from a config whose
\* credential references are resolved, as one built at construction is.
C5_PatternCredentialsResolved ==
    \A i \in 1..Len(insts) :
        insts[i].origin \in {"config", "pattern"} => ~HasCredentialReference(insts[i].config)

\* C6 as claimed: a catalog and its shallow copy always have equal
\* exact-name maps.
C6_Original_CopySharesMap ==
    "copy" \in alive => DS("copy") = DS("catalog")

\* the other catalog
Other(r) == IF r = "catalog" THEN "copy" ELSE "catalog"

\* C6 amended: shallow_copy gives the copy a map object of its own that holds
\* the entries (the same instances) of the original at the time of the copy;
\* afterwards a call on one catalog leaves the map of the other unchanged, so
\* a dataset registered through one is not registered in the other.
C6_CopyOwnsItsMap ==
    [][/\ last'.op = "shallow_copy" =>
             /\ DS("copy")' = DS("catalog")
             /\ ds_ref'["copy"] # ds_ref'["catalog"]
       /\ \A r \in Regs :
             ("copy" \in alive /\ last'.reg = r /\ last'.op \in {"add", "load"}) =>
                 DS(Other(r))' = DS(Other(r))]_vars

\* C6 witness: after the copy, each catalog has registered a name that the
\* other has not
C6_Witness ==
    /\ "copy" \in alive
    /\ Keys(DS("catalog")) \ Keys(DS("copy")) # {}
    /\ Keys(DS("copy")) \ Keys(DS("catalog")) # {}

\* C7 as claimed: no key of the exact-name map contains "{" or "}".
C7_Original_NoDelimiterInExactNames ==
    \A r \in alive : \A n \in Keys(DS(r)) : ~Contains(n, "{") /\ ~Contains(n, "}")

\* C7 amended: construction from config registers no name that contains "}"
\* as an exact name; the names of the config that contain "}" become the keys
\* of the pattern table and the others the keys of the exact-name map.
C7_ConstructionSeparatesPatterns ==
    [][(last'.op = "from_config" /\ last'.err.kind = "none") =>
          /\ \A n \in Keys(DS("catalog")') : ~Contains(n, "}")
          /\ \A p \in DOMAIN dataset_patterns'["catalog"] : Contains(p, "}")
          /\ \E c \in Catalogs :
                /\ Keys(DS("catalog")') = {n \in EntryNames(c) : ~Contains(n, "}")}
                /\ DOMAIN dataset_patterns'["catalog"] = {n \in EntryNames(c) : Contains(n, "}")}]_vars

\* C7 witness: a catalog constructed with exact names and with patterns
C7_Witness ==
    /\ last.op = "from_config"
    /\ alive = {"catalog"}
    /\ Keys(DS("catalog")) # {}
    /\ DOMAIN dataset_patterns["catalog"] # {}

\* the messages of _FrozenDatasets.__setattr__
OperationNotAllowed ==
    {"Operation not allowed! Please change datasets through configuration.",
     "Operation not allowed! Please use DataCatalog.add() instead."}

\* C8: setting or deleting an attribute of the view fails with the
\* operation-not-allowed error and leaves the view unchanged.
C8_ViewReadOnly ==
    [][last'.op \in {"setattr", "delattr"} =>
          /\ last'.err.kind = "AttributeError"
          /\ last'.err.key \in OperationNotAllowed
          /\ datasets' = datasets]_vars

\* C9 as claimed: exists never raises for a name whose resolution fails.
C9_Original_ExistsNeverRaises ==
    last.op = "exists" => last.err.kind = "none"

\* C9 amended: exists returns false, and changes nothing, for a name that is
\* not registered, not in the cache and matches no pattern; for a name whose
\* matched pattern cannot be materialized it raises the error of the
\* materialization.
C9_ExistsDowngradesNotFoundOnly ==
    [][\A r \in Regs, n \in Names :
          (last'.op = "exists" /\ last'.reg = r /\ last'.name = n /\ ~Has(DS(r), n)) =>
              /\ (n \notin DOMAIN cache[r] /\ ~MatchesPattern(r, n)) =>
                    /\ last'.err.kind = "none"
                    /\ last'.res = "false"
                    /\ UNCHANGED <<data_sets, datasets, cache, insts>>
              /\ (MatchesPattern(r, n) /\ ~Has(DS(r)', n)) =>
                    /\ last'.err.kind \in {"DatasetError", "ValueError", "AttributeError"}
                    /\ last'.res = ""]_vars

\* C9 witness: exists has answered false for a name that nothing resolves
C9_Witness ==
    /\ last.op = "exists"
    /\ last.res = "false"
    /\ last.err.kind = "none"
    /\ last.matchCalls = 1
    /\ ~Has(DS(last.reg), last.name)

\* Python's  t in s  for strings
IsSubstring(t, s) == \E i \in 1..(Len(s) - Len(t) + 1) : SubSeq(s, i, i + Len(t) - 1) = t

\* a config in which some string, at any depth, still holds the placeholder
\* of one of the captures
RECURSIVE HasPlaceholderOf(_, _)
HasPlaceholderOf(m, named) ==
    \E k \in DOMAIN m :
        \/ /\ m[k].tag = "str"
           /\ \E key \in DOMAIN named : IsSubstring(<<"{">> \o key \o <<"}">>, m[k].s)
        \/ m[k].tag = "map" /\ HasPlaceholderOf(m[k].m, named)

\* C10: in the config of a capability built from a pattern, every string at
\* any depth has its placeholders replaced by the captures.
C10_PlaceholdersReplacedAtAnyDepth ==
    \A r \in alive : \A n \in Keys(DS(r)) :
        (insts[Get(DS(r), n)].origin = "pattern" /\ n \in DOMAIN cache[r]) =>
            ~HasPlaceholderOf(insts[Get(DS(r), n)].config, parse(cache[r][n], n).named)

\* the step is a call of add(n, ..., replace=rep) on catalog r
AddStep(r, n, rep) ==
    /\ last'.op = "add"
    /\ last'.reg = r
    /\ last'.name = n
    /\ last'.replace = rep

\* C11: add(name, capability, replace=false) on a name that is already an
\* exact registration fails with already-exists and leaves the exact-name
\* map, the instance stored for the name, the pattern match cache and the
\* frozen view unchanged.
C11_AddExistingFailsUnchanged ==
    [][\A r \in Regs, n \in Names : (AddStep(r, n, FALSE) /\ Has(DS(r), n)) =>
          /\ last'.err.kind = "DatasetAlreadyExistsError"
          /\ DS(r)' = DS(r)
          /\ Get(DS(r)', n) = Get(DS(r), n)
          /\ cache' = cache
          /\ datasets' = datasets
          /\ insts' = insts]_vars

\* C11 witness: add without replace has failed on a registered name of a
\* catalog whose cache is not empty
C11_Witness ==
    /\ last.op = "add"
    /\ ~last.replace
    /\ last.err.kind = "DatasetAlreadyExistsError"
    /\ Has(DS(last.reg), last.name)
    /\ DOMAIN cache[last.reg] # {}

\* the calls that resolve a name through _get_dataset
GetDatasetOps == {"load", "save", "exists", "release", "confirm"}

\* the instances that catalog r stores
Stored(r) == {DS(r)[i].id : i \in 1..Len(DS(r))}

\* the instances that were created and are stored no more: with one catalog,
\* the instances that a replacing add has replaced
Replaced(r) == (1..Len(insts)) \ Stored(r)

\* C12: add(name, capability, replace=true) on a registered name succeeds and
\* stores the new instance in place of the old one; every later resolution of
\* a registered name (load, save, exists, release, confirm) uses the instance
\* stored, which is never a replaced one.
C12_ReplaceThenResolveNew ==
    [][\A n \in Names :
          /\ (AddStep("catalog", n, TRUE) /\ Has(DS("catalog"), n)) =>
                /\ last'.err.kind = "none"
                /\ Len(insts') = Len(insts) + 1
                /\ Get(DS("catalog")', n) = Len(insts')
                /\ Get(DS("catalog"), n) \in Replaced("catalog")'
                /\ Keys(DS("catalog"))' = Keys(DS("catalog"))
          /\ (/\ last'.op \in GetDatasetOps
              /\ last'.name = n
              /\ Has(DS("catalog"), n)) =>
                /\ last'.ret = Get(DS("catalog"), n)
                /\ last'.ret \notin Replaced("catalog")'
                /\ DS("catalog")' = DS("catalog")]_vars

\* C12 witness: a name whose instance was replaced has been resolved to the
\* new instance
C12_Witness ==
    /\ last.op \in GetDatasetOps
    /\ Has(DS("catalog"), last.name)
    /\ last.ret = Get(DS("catalog"), last.name)
    /\ Replaced("catalog") # {}
    /\ insts[last.ret].origin = "add"

\* C13: load, save, release and confirm of a name that is not registered, not
\* in the cache and matches no pattern fail with not-found, and so does
\* _get_dataset with or without suggestions, whether or not the message
\* carries suggestions; the exact-name map, the cache and the view are
\* unchanged.
C13_NotFoundSameKindUnchanged ==
    [][\A n \in NotFoundNames :
          (/\ last'.op \in ResolutionOps \cup {"_get_dataset"}
           /\ last'.name = n
           /\ ~Has(DS("catalog"), n)
           /\ n \notin DOMAIN cache["catalog"]
           /\ ~MatchesPattern("catalog", n)) =>
              /\ last'.err.kind = "DatasetNotFoundError"
              /\ last'.ret = 0
              /\ UNCHANGED <<data_sets, cache, datasets, insts>>]_vars

\* C13 witness: load, save, release or confirm has failed with not-found and
\* its message suggests a registered name
C13_Witness ==
    /\ last.op \in ResolutionOps
    /\ last.err.kind = "DatasetNotFoundError"
    /\ last.err.ref # <<>>
    /\ ~Has(DS("catalog"), last.name)

\* the names of catalog r that normalise to a key of the view
NamesOf(r, key) == {n \in Keys(DS(r)) : _sub_nonword_chars(n) = key}

\* the instance that was created last among those stored for the names of a key
NewestOf(r, key) ==
    CHOOSE i \in {Get(DS(r), n) : n \in NamesOf(r, key)} :
        \A n \in NamesOf(r, key) : Get(DS(r), n) <= i

\* the instance of the entry that comes last in the map among the names of a key
LastEntryOf(r, key) ==
    DS(r)[CHOOSE i \in 1..Len(DS(r)) :
             /\ _sub_nonword_chars(DS(r)[i].name) = key
             /\ \A j \in (i + 1)..Len(DS(r)) : _sub_nonword_chars(DS(r)[j].name) # key].id

\* the keys of the view are the normalised exact names
ViewKeysAreNormalisedNames(r) ==
    DOMAIN datasets[r] = {_sub_nonword_chars(n) : n \in Keys(DS(r))}

\* C14 as claimed: in every catalog the view holds the normalised form of
\* every exact name and maps each key to the instance of the most recent
\* successful add among the names that normalise to the key.
C14_Original_ViewHoldsMostRecentAdd ==
    \A r \in alive :
        /\ ViewKeysAreNormalisedNames(r)
        /\ \A key \in DOMAIN datasets[r] : datasets[r][key] = NewestOf(r, key)

\* C14 amended: in every catalog the keys of the view are the normalised
\* exact names and each key holds an instance stored for one of its names; a
\* successful registration of a name puts its instance under the name's key
\* and leaves the other keys alone; in a catalog built from config each key
\* so holds the instance registered last among its names, while the view of a
\* shallow copy starts from the map in its order of insertion, where the entry
\* that comes last in the map wins.
C14_ViewLastWriteWins ==
    [][\A r \in alive' :
          /\ ViewKeysAreNormalisedNames(r)'
          /\ \A key \in DOMAIN datasets'[r] :
                \E n \in NamesOf(r, key)' : datasets'[r][key] = Get(DS(r)', n)
          /\ r = "catalog" =>
                \A key \in DOMAIN datasets'[r] : datasets'[r][key] = NewestOf(r, key)'
          /\ (last'.op = "shallow_copy" /\ r = "copy") =>
                \A key \in DOMAIN datasets'[r] : datasets'[r][key] = LastEntryOf(r, key)'
          /\ (r \in alive /\ last'.reg = r /\ DS(r)' # DS(r)) =>
                /\ datasets'[r][_sub_nonword_chars(last'.name)] = Get(DS(r)', last'.name)
                /\ \A key \in DOMAIN datasets[r] \ {_sub_nonword_chars(last'.name)} :
                      datasets'[r][key] = datasets[r][key]]_vars

\* C14 witness: two names of the catalog share a key of the view, and the key
\* holds the instance of the one that comes first in the map, which a
\* replacing add registered last
C14_Witness ==
    /\ "catalog" \in alive
    /\ \E key \in DOMAIN datasets["catalog"] :
          /\ Cardinality(NamesOf("catalog", key)) >= 2
          /\ datasets["catalog"][key] = NewestOf("catalog", key)
          /\ datasets["catalog"][key] # LastEntryOf("catalog", key)

\* C15: no call removes a name from the exact-name map; the instance stored
\* for a name changes only in an add, add_all or add_feed_dict call with
\* replace=true; and a resolution of a registered name without a version
\* override hands out the stored instance and leaves it stored.
C15_NeverDeletedOnlyReplaced ==
    [][\A r \in alive :
          /\ Keys(DS(r)) \subseteq Keys(DS(r))'
          /\ \A n \in Keys(DS(r)) :
                /\ Get(DS(r)', n) # Get(DS(r), n) =>
                      /\ last'.op \in {"add", "add_all", "add_feed_dict"}
                      /\ last'.replace
                      /\ last'.reg = r
                /\ (ResolutionStep(r, n) \/ (last'.op = "exists" /\ last'.reg = r /\ last'.name = n)) =>
                      /\ last'.ret = Get(DS(r), n)
                      /\ ~last'.copy
                      /\ Get(DS(r)', n) = Get(DS(r), n)]_vars

\* C15 witness: a load has handed out the instance that add_feed_dict stored
\* in place of an earlier one
C15_Witness ==
    /\ last.op = "load"
    /\ last.err.kind = "none"
    /\ last.ret = Get(DS("catalog"), last.name)
    /\ insts[last.ret].origin = "memory"
    /\ Replaced("catalog") # {}

\* C16: exists_in_catalog_config(name) answers true exactly when the name is
\* registered, is in the pattern match cache or matches some pattern; it
\* changes nothing but the cache, to which it adds the name with the pattern
\* it matched when the name is neither registered nor cached and matches one.
C16_ExistsInConfigOnlyCaches ==
    [][\A r \in alive, n \in Names :
          (last'.op = "exists_in_catalog_config" /\ last'.reg = r /\ last'.name = n) =>
              /\ (last'.res = "true") <=>
                    (Has(DS(r), n) \/ n \in DOMAIN cache[r] \/ MatchesPattern(r, n))
              /\ last'.res \in {"true", "false"}
              /\ last'.err.kind = "none"
              /\ UNCHANGED <<data_sets, datasets, insts, dataset_patterns, sorted_patterns>>
              /\ IF ~Has(DS(r), n) /\ n \notin DOMAIN cache[r] /\ MatchesPattern(r, n)
                 THEN /\ DOMAIN cache'[r] = DOMAIN cache[r] \cup {n}
                      /\ cache'[r][n] \in DOMAIN dataset_patterns[r]
                      /\ parse(cache'[r][n], n).ok
                      /\ \A m \in DOMAIN cache[r] : cache'[r][m] = cache[r][m]
                 ELSE cache' = cache]_vars

\* C16 witness: exists_in_catalog_config has answered true for a name that is
\* not registered and has cached the pattern it matched
C16_Witness ==
    /\ last.op = "exists_in_catalog_config"
    /\ last.res = "true"
    /\ last.matchCalls = 1
    /\ ~Has(DS(last.reg), last.name)
    /\ last.name \in DOMAIN cache[last.reg]

\* the position of the first entry of ns whose add without replace fails in
\* catalog r: the first name that is registered already; 0 when there is none
FirstFailure(r, ns) ==
    IF \E i \in 1..Len(ns) : Has(DS(r), ns[i])
    THEN CHOOSE i \in 1..Len(ns) :
             Has(DS(r), ns[i]) /\ \A j \in 1..(i - 1) : ~Has(DS(r), ns[j])
    ELSE 0

\* C17: add_all(map, replace=false) adds the entries in order and stops at
\* the first failure: the entries before the failing one are registered with
\* their new instances and stay so, the registration of the failing entry is
\* unchanged, and no entry after it is registered or changed.
C17_AddAllStopsAtFirstFailure ==
    [][\A r \in alive :
          (last'.op = "add_all" /\ last'.reg = r /\ ~last'.replace) =>
              LET ns == last'.names
                  f == FirstFailure(r, ns)
              IN  /\ (f = 0) <=> (last'.err.kind = "none")
                  /\ f # 0 =>
                        /\ last'.err.kind = "DatasetAlreadyExistsError"
                        /\ Len(insts') = Len(insts) + (f - 1)
                        /\ \A j \in 1..(f - 1) :
                              /\ Has(DS(r)', ns[j])
                              /\ Get(DS(r)', ns[j]) = Len(insts) + j
                              /\ datasets'[r][_sub_nonword_chars(ns[j])] = Len(insts) + j
                        /\ Get(DS(r)', ns[f]) = Get(DS(r), ns[f])
                        /\ \A j \in (f + 1)..Len(ns) :
                              /\ Has(DS(r)', ns[j]) <=> Has(DS(r), ns[j])
                              /\ Has(DS(r), ns[j]) => Get(DS(r)', ns[j]) = Get(DS(r), ns[j])
                        /\ Keys(DS(r))' = Keys(DS(r)) \cup {ns[j] : j \in 1..(f - 1)}
                  /\ f = 0 =>
                        /\ Len(insts') = Len(insts) + Len(ns)
                        /\ \A j \in 1..Len(ns) : Get(DS(r)', ns[j]) = Len(insts) + j]_vars

\* C17 witness: add_all has failed on its second entry and its first entry is
\* registered
C17_Witness ==
    /\ last.op = "add_all"
    /\ ~last.replace
    /\ last.err.kind = "DatasetAlreadyExistsError"
    /\ last.built = 1
    /\ Has(DS(last.reg), last.names[1])
    /\ Get(DS(last.reg), last.names[1]) = Len(insts)

\* C18: from_config with a load_versions key that is not a key of the catalog
\* config fails (with DatasetNotFoundError) before any capability is built
\* and before any pattern is stored, and produces no catalog; without such a
\* key it does not fail this way.
C18_DanglingLoadVersionFailsFirst ==
    [][last'.op = "from_config" =>
          LET missing_keys == last'.load_versions \ {last'.names[i] : i \in 1..Len(last'.names)}
          IN  /\ missing_keys # {} =>
                    /\ last'.err.kind = "DatasetNotFoundError"
                    /\ last'.built = 0
                    /\ alive' = {}
                    /\ UNCHANGED <<alive, insts, data_sets, datasets, layers,
                                   dataset_patterns, sorted_patterns, cache>>
              /\ missing_keys = {} => last'.err.kind # "DatasetNotFoundError"]_vars

\* C18 witness: from_config has failed for a load_versions key that the
\* catalog config does not have, and there is no catalog
C18_Witness ==
    /\ last.op = "from_config"
    /\ last.load_versions # {}
    /\ last.err.kind = "DatasetNotFoundError"
    /\ last.built = 0
    /\ alive = {}

\* the credential references of a config: the strings under the credentials
\* key of the config and of the mappings nested in it
RECURSIVE ReferencesOf(_)
ReferencesOf(m) ==
    UNION {IF k = CREDENTIALS_KEY /\ m[k].tag = "str" THEN {m[k].s}
           ELSE IF m[k].tag = "map" THEN ReferencesOf(m[k].m)
           ELSE {} : k \in DOMAIN m}

\* out is the config in with every credential reference replaced by its entry
\* of the table, in the config and in the mappings nested in it, and with
\* every other value as it was
RECURSIVE ResolvedFrom(_, _, _)
ResolvedFrom(out, in, table) ==
    /\ DOMAIN out = DOMAIN in
    /\ \A k \in DOMAIN in :
          IF k = CREDENTIALS_KEY /\ in[k].tag = "str" THEN out[k] = table[in[k].s]
          ELSE IF in[k].tag = "map"
               THEN out[k].tag = "map" /\ ResolvedFrom(out[k].m, in[k].m, table)
          ELSE out[k] = in[k]

\* C19: _resolve_credentials replaces, in the config and in the mappings
\* nested in it at any depth, each string under the key "credentials" by the
\* entry of the table and passes every other value through unchanged; when a
\* reference is not in the table it fails with a KeyError that names a
\* missing reference; it changes neither the config nor the table.
C19_CredentialsResolvedAtEveryDepth ==
    [][cr_pc' = "done" =>
          /\ cr_config' = cr_config
          /\ credentials' = credentials
          /\ IF ReferencesOf(cr_config) \subseteq DOMAIN credentials
             THEN /\ cr_result'.err.kind = "none"
                  /\ ResolvedFrom(cr_result'.m, cr_config, credentials)
             ELSE /\ cr_result'.err.kind = "KeyError"
                  /\ cr_result'.err.ref \in ReferencesOf(cr_config) \ DOMAIN credentials]_vars

\* C19 witness: a reference two mappings deep has been replaced by the entry
\* of the table, next to a list that was passed through
C19_Witness ==
    /\ cr_pc = "done"
    /\ cr_result.err.kind = "none"
    /\ DOMAIN cr_config = {"type", CREDENTIALS_KEY, "load_args"}
    /\ cr_config["load_args"] = MapVal(la_deep_k)
    /\ cr_config[CREDENTIALS_KEY] = ListVal(la_k)
    /\ cr_result.m["load_args"].m["load_args"].m[CREDENTIALS_KEY] = SecretVal(<<"k">>)
    /\ cr_result.m[CREDENTIALS_KEY] = ListVal(la_k)

\* the names of a map, in its order
NameSeq(d) == [i \in 1..Len(d) |-> d[i].name]

Materializes(n) ==
    LET p == match_name_against_patterns(sorted_patterns["catalog"], n)
    IN  /\ p # <<>>
        /\ _resolve_dataset(dataset_patterns["catalog"], n, p).err.kind = "none"

\* the calls of t and u are over, were made for the same name, not registered
\* when either began, and ran at the same time
ConcurrentPair(t, u) ==
    /\ t # u
    /\ th_pc[t] = "done" /\ th_pc[u] = "done"
    /\ th_call[t].name = th_call[u].name
    /\ th_call[t].unregistered /\ th_call[u].unregistered
    /\ th_call[t].overlapped /\ th_call[u].overlapped

\* C21: when two callers concurrently load or save the same unregistered name
\* that matches a pattern, exactly one capability is materialized and
\* registered, both callers obtain that same instance, and neither call fails
\* with already-exists (the resolution sequence is atomic).
C21_ConcurrentResolutionAtomic ==
    \A t, u \in Threads :
        ConcurrentPair(t, u) /\ Materializes(th_call[t].name) =>
            /\ th_out[t].built + th_out[u].built = 1
            /\ th_out[t].err.kind # "DatasetAlreadyExistsError"
            /\ th_out[u].err.kind # "DatasetAlreadyExistsError"
            /\ th_out[t].err = NoError /\ th_out[u].err = NoError
            /\ th_out[t].ret = th_out[u].ret
            /\ Has(DS("catalog"), th_call[t].name)
            /\ Get(DS("catalog"), th_call[t].name) = th_out[t].ret

(***************************************************************************)
(* C22.  The pattern table after resolutions.                               *)
(***************************************************************************)
\* C22: materializing datasets from patterns never changes the pattern table:
\* no call on a constructed catalog, resolutions included, changes a template
\* config of dataset_patterns or the sorted order of the patterns, so both
\* stay what the construction made them.
C22_ResolutionKeepsPatternTable ==
    [][\A r \in alive :
          /\ dataset_patterns'[r] = dataset_patterns[r]
          /\ sorted_patterns'[r] = sorted_patterns[r]]_vars

\* a call has just materialized a capability from a template with
\* placeholders, and the capability's config differs from the template
C22_Witness ==
    /\ last.op \in ResolutionOps
    /\ last.built = 1
    /\ last.err = NoError
    /\ last.name \in DOMAIN cache[last.reg]
    /\ LET template == dataset_patterns[last.reg][cache[last.reg][last.name]]
       IN  /\ "filepath" \in DOMAIN template
           /\ Contains(template["filepath"].s, "}")
           /\ insts[last.ret].origin = "pattern"
           /\ insts[last.ret].config["filepath"] # template["filepath"]

(***************************************************************************)
(* C23.  The entries of the pattern match cache.                            *)
(***************************************************************************)
\* the positions of the sorted patterns of catalog r that match name n
MatchingPositions(r, n) ==
    {i \in 1..Len(sorted_patterns[r]) : parse(sorted_patterns[r][i], n).ok}

\* every cached pattern is a key of the pattern table and is the first of
\* the sorted patterns that matches its name
CacheEntriesAreFirstMatches ==
    \A r \in alive : \A n \in DOMAIN cache[r] :
        /\ cache[r][n] \in DOMAIN dataset_patterns[r]
        /\ \E i \in MatchingPositions(r, n) :
              /\ sorted_patterns[r][i] = cache[r][n]
              /\ \A j \in MatchingPositions(r, n) : i <= j

\* C23: in every reachable state each entry name -> pattern of the pattern
\* match cache refers to a pattern of the pattern table that is the first
\* pattern in sorted order matching that name, and no step removes or
\* changes an entry once written.
C23_CacheEntriesFirstMatchForever ==
    /\ []CacheEntriesAreFirstMatches
    /\ [][\A r \in alive : \A n \in DOMAIN cache[r] :
              /\ n \in DOMAIN cache'[r]
              /\ cache'[r][n] = cache[r][n]]_vars

\* the cache holds a name that two patterns match, and a later call on that
\* name has run without matching again
C23_Witness ==
    /\ last.op \in ResolutionOps \cup {"exists_in_catalog_config", "add"}
    /\ last.reg \in alive
    /\ last.name \in DOMAIN cache[last.reg]
    /\ last.matchCalls = 0
    /\ Cardinality(MatchingPositions(last.reg, last.name)) >= 2

(***************************************************************************)
(* C24.  A pattern-matched name whose materialization fails.                *)
(***************************************************************************)
\* the calls that resolve a name and pass on the error of its materialization
MaterializingOps == ResolutionOps \cup {"exists"}

\* call c ended with the error of a materialization: of _resolve_dataset's
\* substitution or of the construction of the capability
MaterializationFailed(c) ==
    /\ c.op \in MaterializingOps
    /\ c.err.kind \notin {"none", "DatasetNotFoundError"}
    /\ c.ret = 0

\* the call that fails to materialize name n registers nothing, leaves the
\* view alone and leaves n in the cache
FailureLeavesNoTrace(r, n) ==
    MaterializationFailed(last') =>
        /\ data_sets' = data_sets
        /\ ~Has(data_sets'[ds_ref'[r]], n)
        /\ datasets' = datasets
        /\ insts' = insts
        /\ n \in DOMAIN cache'[r]
        /\ n \in DOMAIN first_failure'[r]

\* the resolution of an unregistered name that a pattern matches registers
\* the name or ends with the error of the materialization, never not-found
MaterializedOrFailed(r, n) ==
    ~Has(DS(r), n) /\ MatchesPattern(r, n) =>
        \/ Has(data_sets'[ds_ref'[r]], n)
        \/ MaterializationFailed(last')

\* the resolution of a name whose materialization failed before retries it
\* from the cached pattern and fails with the same error
FailsTheSameWay(r, n) ==
    /\ last'.err = first_failure[r][n]
    /\ last'.matchCalls = 0
    /\ n \in DOMAIN cache[r]
    /\ cache'[r][n] = cache[r][n]

\* C24 as claimed: when materializing a pattern-matched name fails, no exact
\* registration is created and the view is unchanged, the name stays in the
\* cache, and every later resolution of the name fails the same way.
C24_Original_EveryLaterResolutionFails ==
    [][\A r \in alive : \A n \in FailNames :
          last'.op \in MaterializingOps /\ last'.reg = r /\ last'.name = n =>
              /\ MaterializedOrFailed(r, n)
              /\ FailureLeavesNoTrace(r, n)
              /\ n \in DOMAIN first_failure[r] => FailsTheSameWay(r, n)]_vars

\* C24: when materializing a pattern-matched name fails, no exact
\* registration is created and the view is unchanged, the name stays in the
\* cache, and every later resolution of the name, as long as add has not
\* registered the name, retries the materialization and fails the same way
\* rather than reporting not-found.
C24_LaterResolutionFailsUntilAdded ==
    [][\A r \in alive : \A n \in FailNames :
          last'.op \in MaterializingOps /\ last'.reg = r /\ last'.name = n =>
              /\ MaterializedOrFailed(r, n)
              /\ FailureLeavesNoTrace(r, n)
              /\ n \in DOMAIN first_failure[r] /\ ~Has(DS(r), n) =>
                    FailsTheSameWay(r, n)]_vars

\* a resolution has just failed to materialize a name from the pattern that
\* an earlier resolution cached, with the error of the first failure
C24_Witness ==
    /\ MaterializationFailed(last)
    /\ last.matchCalls = 0
    /\ last.name \in DOMAIN first_failure[last.reg]
    /\ last.err = first_failure[last.reg][last.name]
    /\ ~Has(DS(last.reg), last.name)
====
